---- MODULE Spec2Model ----
(***************************************************************************)
(* Model of the bc-ferries command line tool (src/bc-ferries.py) and of    *)
(* the exit status of the poller it runs (src/wait-for-ferry.py).          *)
(*                                                                         *)
(* The host is a set of processes and four files: the PID record           *)
(* (PID_FILE), the WorkflowState record (STATE_FILE), the ResultRecord     *)
(* (RESULT_FILE) and the log (LOG_FILE).  A command line invocation        *)
(* creates a process; every process advances one system call (file         *)
(* access, fork, kill, subprocess call) at a time, and the steps of        *)
(* different processes interleave freely.  time.sleep() takes no step:     *)
(* the model has no clock, so a sleeping process may be overtaken by any   *)
(* number of steps of the others, or by none.                              *)
(*                                                                         *)
(* Modelled as one step each: is_daemon_running() (its exists / read /     *)
(* kill(pid, 0) / remove), write_state() and the write of the PID file.    *)
(* A signal whose disposition is the default ends its target within the    *)
(* kill() step; a dead process is reaped at once (the daemon is a child    *)
(* of init after the double fork).  Process ids are never reused.          *)
(***************************************************************************)
EXTENDS Integers, Sequences, FiniteSets, TLC

\* Number of command line invocations (monitor-and-book, stop) on the host.
MaxCmds == 2

\* Largest number of checks the poller makes in one run.
MaxChecks == 2

\* Number of exceptions (a file that cannot be written, a program that cannot be
\* started) raised inside daemon_monitor_and_book, over all the workflows on the host.
MaxFaults == 1

\* A --daemon start creates three processes: the command, the first child, the daemon.
MaxPid == 3 * MaxCmds

\* range(10) in cmd_stop
GracePolls == 10

Pids == 1 .. MaxPid

\* Python's None: get_daemon_pid() without a usable record; a variable not yet assigned.
None == -1

\* The content of a PID file: absent, unparsable (int() raises ValueError), or a pid.
NoFile == -1
Unparsable == -2

\* The pid of a daemon of an earlier session that is no longer alive.
OldPid == 0

VARIABLES
  proc,        \* pid -> the process: its kind, its position, its local variables
  nextPid,     \* the next process id the kernel hands out
  cmds,        \* the number of command line invocations so far
  faults,      \* the number of exceptions raised so far
  pidFile,     \* content of PID_FILE
  stateFile,   \* content of STATE_FILE
  resultFile,  \* content of RESULT_FILE
  logFile,     \* pid of the process that last truncated LOG_FILE, or NoFile
  poll,        \* wait-for-ferry: one call of wait_for_availability and its clock
  api,         \* wait-for-ferry: one BCFerriesAPI client, its callers and its clock
  norm,        \* wait-for-ferry: one use of BCFerriesAPI._normalize_time
  look,        \* wait-for-ferry: one check's response and what the check makes of it
  book,        \* bc-ferries-book: one run of main() and the steps it has run
  args,        \* the command line of one monitor-and-book invocation and its mocks
  io           \* STATE_FILE / RESULT_FILE as a writer and a reader see it, byte-wise

vars ==
  <<proc, nextPid, cmds, faults, pidFile, stateFile, resultFile, logFile, poll, api, norm,
    look, book, args, io>>

\* The state of bc-ferries (the host) and the state of wait-for-ferry (the poller).
host == <<proc, nextPid, cmds, faults, pidFile, stateFile, resultFile, logFile>>

poller == <<poll, api, norm>>

\* One check's response, the booking action, the command line, the files byte-wise.
others == <<look, book, args, io>>

files == <<pidFile, stateFile, resultFile, logFile>>

counters == <<nextPid, cmds, faults>>

--------------------------------------------------------------------------
(* Records *)

\* No call of wait_for_availability, no client, no normalization is being observed.
NoPoll == [pc |-> "none"]

NoApi == [pc |-> "none"]

NoNorm == [pc |-> "none"]

\* No response is being looked at, no booking action runs, no command line is
\* being followed, no file is being written byte-wise.
NoLook == [pc |-> "none"]

NoBook == [pc |-> "none"]

NoArgs == [pc |-> "none"]

NoIo == [pc |-> "none"]

OthersIdle == look = NoLook /\ book = NoBook /\ args = NoArgs /\ io = NoIo

\* STATE_FILE does not exist (read_state() then returns {}).
NoState ==
  [exists |-> FALSE, status |-> "none", pid |-> None, stopped_at |-> FALSE,
   error |-> "none"]

\* RESULT_FILE does not exist.  "by" is the pid of the run that wrote the record.
NoResult ==
  [exists |-> FALSE, success |-> FALSE, stage |-> "none", error |-> "none", by |-> None]

\* A process slot the kernel has not used yet.
\*   kind     none | start | child | run | stop
\*   pc       the statement the process executes next
\*   fg       run: started by monitor-and-book without --daemon
\*   sigterm  the disposition of SIGTERM the process inherited: "default", "ignored",
\*            or "unknown" as long as no SIGTERM has been sent to it
\*   state    run: the `state` dict; stop: the dict read_state() returned
\*   written  run: the status of its last successful write_state ("none": none yet)
\*   result   run: `result` of subprocess.call(monitor_cmd)
\*   seen     run: what the poller's last check saw when it returned available
\*   book     run: `book_result`
\*   books    run: how many times bc-ferries-book was started
\*   results  run: how many times RESULT_FILE was written
\*   err      run: an exception is propagating / was caught
\*   ret      the value the command returned (None: it has not returned)
\*   msg      what the command reported
\*   pid      start: pid returned by os.fork(); stop: pid from get_daemon_pid()
\*   polls    stop: iterations of the wait loop done
\*   term, kill   stop: the signal was delivered to `pid`
\*   stale    start: the first is_daemon_running() found a stale or unparsable record
NoProc ==
  [kind |-> "none", pc |-> "none", fg |-> FALSE, sigterm |-> "unknown", state |-> NoState,
   written |-> "none", result |-> None, seen |-> "none", book |-> None,
   books |-> 0, results |-> 0, err |-> FALSE, ret |-> None, msg |-> "none",
   pid |-> None, polls |-> 0, term |-> FALSE, kill |-> FALSE, stale |-> FALSE]

DeadPcs == {"none", "exited", "killed", "crashed"}

\* The process exists: os.kill(pid, 0) succeeds.
Alive(p) == p \in Pids /\ proc[p].pc \notin DeadPcs

\* A workflow (daemon_monitor_and_book) is executing in process p.
Workflow(p) == Alive(p) /\ proc[p].kind = "run"

--------------------------------------------------------------------------
(* bc-ferries.py: the PID record *)

\* is_daemon_running(): the value returned.
is_daemon_running(pf) == pf # NoFile /\ pf # Unparsable /\ Alive(pf)

\* is_daemon_running() with the removal of PID_FILE moved out of the except clause.
PidFileAfterCheck_AlwaysRemoves(pf) == NoFile

\* is_daemon_running(): PID_FILE after the call (a stale or unparsable record is removed).
PidFileAfterCheck(pf) == IF is_daemon_running(pf) THEN pf ELSE NoFile

\* get_daemon_pid(): the pid in PID_FILE, None when absent or unparsable.
get_daemon_pid(pf) == IF pf = NoFile \/ pf = Unparsable THEN None ELSE pf

--------------------------------------------------------------------------
(* wait-for-ferry.py: what the poller's exit status depends on *)

\* What one check of the poll loop sees of the target sailing: the status of the
\* matched sailing, no sailing at the target time, or an exception in the check.
Observations == {"AVAILABLE", "SOLD_OUT", "UNKNOWN", "NOT_FOUND", "ERROR"}

\* `status != "SOLD_OUT"` in place of `status == "AVAILABLE"`.
is_sailing_available_NotSoldOut(status) == status # "SOLD_OUT"

\* is_sailing_available(): status == "AVAILABLE".
is_sailing_available(status) == status = "AVAILABLE"

\* The poll loop from check i on; obs holds what the checks made before the timeout see.
RECURSIVE wait_from(_, _)
wait_from(obs, i) ==
  IF i > Len(obs)
    THEN [available |-> FALSE, reason |-> "timeout", checks |-> i]
    ELSE IF is_sailing_available(obs[i])
           THEN [available |-> TRUE, reason |-> "none", checks |-> i]
           ELSE wait_from(obs, i + 1)

\* wait_for_availability().
wait_for_availability(obs) == wait_from(obs, 1)

\* main() of wait-for-ferry ending with `return 0` instead of
\* `return 0 if result["available"] else 1`.
wait_main_ReturnsZero(valid, raised, obs) ==
  IF ~valid THEN 2
  ELSE IF raised THEN 2
  ELSE 0

\* main() of wait-for-ferry: 2 for invalid arguments or an exception, else 0 when
\* the sailing became available and 1 on timeout.
wait_main(valid, raised, obs) ==
  IF ~valid THEN 2
  ELSE IF raised THEN 2
  ELSE IF wait_for_availability(obs).available THEN 0 ELSE 1

\* What the check that ended the poll loop saw: the observation of the check
\* wait_for_availability() returned from, "none" when no check ended it.
last_seen(valid, raised, obs) ==
  LET r == wait_for_availability(obs)
  IN  IF valid /\ ~raised /\ r.checks <= Len(obs) THEN obs[r.checks] ELSE "none"

\* The observation sequences of one poller run.
ObsSeqs == UNION {[1 .. n -> Observations] : n \in 0 .. MaxChecks}

\* The ways one poller run can end: its exit status and what its last check saw.
PollerRuns ==
  {[result |-> wait_main(valid, raised, obs), seen |-> last_seen(valid, raised, obs)] :
     valid \in BOOLEAN, raised \in BOOLEAN, obs \in ObsSeqs}

\* bc-ferries-book ending with sys.exit(0) whatever the result.
book_main_ExitsZero(success) == 0

\* bc-ferries-book: sys.exit(0 if result["success"] else 1).
book_main(success) == IF success THEN 0 ELSE 1

--------------------------------------------------------------------------
(* Initial state *)

Init ==
  /\ proc = [p \in Pids |-> NoProc]
  /\ nextPid = 1
  /\ cmds = 0
  /\ faults = 0
  /\ pidFile \in {NoFile, Unparsable, OldPid}
  /\ stateFile = NoState
  /\ resultFile = NoResult
  /\ logFile = NoFile
  /\ poll = NoPoll
  /\ api = NoApi
  /\ norm = NoNorm
  /\ OthersIdle

Set(p, r) == proc' = [proc EXCEPT ![p] = r]

\* Whether a call that can raise succeeds; at most MaxFaults calls raise.
Outcomes == IF faults < MaxFaults THEN BOOLEAN ELSE {TRUE}

Raised(ok) == faults' = IF ok THEN faults ELSE faults + 1

--------------------------------------------------------------------------
(* bc-ferries.py: daemon_monitor_and_book *)

\* write_state(state): STATE_FILE holds the dict.
write_state(state) == [state EXCEPT !.exists = TRUE]

\* The `state` dict as first built.
InitialState(p) == [NoState EXCEPT !.status = "monitoring", !.pid = p]

\* state["status"] = "failed"; state["error"] = ...
FailedState(state, error) == [state EXCEPT !.status = "failed", !.error = error]

\* `if result == 1` in place of `if result != 0`.
MonitorFailed_TimeoutOnly(result) == result = 1

\* `if result != 0`
MonitorFailed(result) == result # 0

\* `if book_result != 0` in place of `if book_result == 0`.
BookSucceeded_NonZero(book_result) == book_result # 0

\* `if book_result == 0`
BookSucceeded(book_result) == book_result = 0

\* One write_state of the workflow that may raise: on success STATE_FILE holds the
\* dict and the run goes to okPc, on an exception it goes to failPc; the dict in
\* memory is changed either way.
RunWriteState(p, state, okPc, failPc) ==
  /\ \E ok \in Outcomes :
       /\ IF ok
            THEN /\ stateFile' = write_state(state)
                 /\ Set(p, [proc[p] EXCEPT !.state = state, !.written = state.status,
                                           !.pc = okPc])
            ELSE /\ stateFile' = stateFile
                 /\ Set(p, [proc[p] EXCEPT !.state = state, !.err = TRUE, !.pc = failPc])
       /\ Raised(ok)
  /\ UNCHANGED <<poller, others, nextPid, cmds, pidFile, resultFile, logFile>>

\* One write of RESULT_FILE followed by `return ret`; an exception goes to failPc.
RunWriteResult(p, record, ret, failPc) ==
  /\ \E ok \in Outcomes :
       /\ IF ok
            THEN /\ resultFile' = [record EXCEPT !.exists = TRUE, !.by = p]
                 /\ Set(p, [proc[p] EXCEPT !.results = @ + 1, !.ret = ret,
                                           !.msg = "return", !.pc = "d_finally"])
            ELSE /\ resultFile' = resultFile
                 /\ Set(p, [proc[p] EXCEPT !.err = TRUE, !.pc = failPc])
       /\ Raised(ok)
  /\ UNCHANGED <<poller, others, nextPid, cmds, pidFile, stateFile, logFile>>

\* with open(PID_FILE, 'w') as f: f.write(str(os.getpid()))
RunWritePid(p) ==
  /\ proc[p].kind = "run" /\ proc[p].pc = "d_pid"
  /\ pidFile' = p
  /\ Set(p, [proc[p] EXCEPT !.pc = "d_log"])
  /\ UNCHANGED <<poller, others, counters, stateFile, resultFile, logFile>>

\* log_file = open(LOG_FILE, 'w'); an exception here is outside the try block.
RunOpenLog(p) ==
  /\ proc[p].kind = "run" /\ proc[p].pc = "d_log"
  /\ \E ok \in Outcomes :
       /\ IF ok
            THEN /\ logFile' = p
                 /\ Set(p, [proc[p] EXCEPT !.pc = "d_state0"])
            ELSE /\ logFile' = logFile
                 /\ Set(p, [proc[p] EXCEPT !.err = TRUE, !.pc = "crashed"])
       /\ Raised(ok)
  /\ UNCHANGED <<poller, others, nextPid, cmds, pidFile, stateFile, resultFile>>

\* state = {...}; write_state(state), before the try block.
RunInitialState(p) ==
  /\ proc[p].kind = "run" /\ proc[p].pc = "d_state0"
  /\ RunWriteState(p, InitialState(p), "d_state1", "crashed")

\* try: state["status"] = "monitoring"; write_state(state)
RunMonitoringState(p) ==
  /\ proc[p].kind = "run" /\ proc[p].pc = "d_state1"
  /\ RunWriteState(p, [proc[p].state EXCEPT !.status = "monitoring"],
                   "d_mon_call", "d_exc_state")

\* subprocess.call(monitor_cmd): the poller is started (OSError when it cannot be).
RunCallMonitor(p) ==
  /\ proc[p].kind = "run" /\ proc[p].pc = "d_mon_call"
  /\ \E ok \in Outcomes :
       /\ Set(p, IF ok THEN [proc[p] EXCEPT !.pc = "d_mon_wait"]
                       ELSE [proc[p] EXCEPT !.err = TRUE, !.pc = "d_exc_state"])
       /\ Raised(ok)
  /\ UNCHANGED <<poller, others, nextPid, cmds, files>>

\* result = subprocess.call(monitor_cmd): the poller ends; `if result != 0`.
RunMonitorReturns(p) ==
  /\ proc[p].kind = "run" /\ proc[p].pc = "d_mon_wait"
  /\ \E run \in PollerRuns :
       Set(p, [proc[p] EXCEPT !.result = run.result, !.seen = run.seen,
                 !.pc = IF MonitorFailed(run.result) THEN "d_mfail_state"
                                                     ELSE "d_book_state"])
  /\ UNCHANGED <<poller, others, counters, files>>

\* The monitoring-failed branch writing RESULT_FILE without its write_state.
RunMonitorFailedState_NoWrite(p) ==
  /\ proc[p].kind = "run" /\ proc[p].pc = "d_mfail_state"
  /\ Set(p, [proc[p] EXCEPT !.state = FailedState(@, "monitoring"),
                            !.pc = "d_mfail_result"])
  /\ UNCHANGED <<poller, others, counters, files>>

\* state["status"] = "failed" ...; write_state(state)   (monitoring failed)
RunMonitorFailedState(p) ==
  /\ proc[p].kind = "run" /\ proc[p].pc = "d_mfail_state"
  /\ RunWriteState(p, FailedState(proc[p].state, "monitoring"),
                   "d_mfail_result", "d_exc_state")

\* RESULT_FILE: success False, stage "monitoring"; return 1
RunMonitorFailedResult(p) ==
  /\ proc[p].kind = "run" /\ proc[p].pc = "d_mfail_result"
  /\ RunWriteResult(p, [NoResult EXCEPT !.stage = "monitoring", !.error = "monitoring"],
                    1, "d_exc_state")

\* state["status"] = "booking"; state["available_at"] = ...; write_state(state)
RunBookingState(p) ==
  /\ proc[p].kind = "run" /\ proc[p].pc = "d_book_state"
  /\ RunWriteState(p, [proc[p].state EXCEPT !.status = "booking"],
                   "d_book_call", "d_exc_state")

\* subprocess.call(["bc-ferries-book"]): the booking action is started.
RunCallBook(p) ==
  /\ proc[p].kind = "run" /\ proc[p].pc = "d_book_call"
  /\ \E ok \in Outcomes :
       /\ Set(p, IF ok THEN [proc[p] EXCEPT !.books = @ + 1, !.pc = "d_book_wait"]
                       ELSE [proc[p] EXCEPT !.err = TRUE, !.pc = "d_exc_state"])
       /\ Raised(ok)
  /\ UNCHANGED <<poller, others, nextPid, cmds, files>>

\* book_result = subprocess.call(["bc-ferries-book"]); `if book_result == 0`
RunBookReturns(p) ==
  /\ proc[p].kind = "run" /\ proc[p].pc = "d_book_wait"
  /\ \E success \in BOOLEAN :
       LET book_result == book_main(success)
       IN  Set(p, [proc[p] EXCEPT !.book = book_result,
                     !.pc = IF BookSucceeded(book_result) THEN "d_done_state"
                                                          ELSE "d_bfail_state"])
  /\ UNCHANGED <<poller, others, counters, files>>

\* state["status"] = "completed"; state["completed_at"] = ...; write_state(state)
RunCompletedState(p) ==
  /\ proc[p].kind = "run" /\ proc[p].pc = "d_done_state"
  /\ RunWriteState(p, [proc[p].state EXCEPT !.status = "completed"],
                   "d_done_result", "d_exc_state")

\* RESULT_FILE: success True, stage "booking"; return 0
RunCompletedResult(p) ==
  /\ proc[p].kind = "run" /\ proc[p].pc = "d_done_result"
  /\ RunWriteResult(p, [NoResult EXCEPT !.success = TRUE, !.stage = "booking"],
                    0, "d_exc_state")

\* state["status"] = "failed" ...; write_state(state)   (booking failed)
RunBookFailedState(p) ==
  /\ proc[p].kind = "run" /\ proc[p].pc = "d_bfail_state"
  /\ RunWriteState(p, FailedState(proc[p].state, "booking"),
                   "d_bfail_result", "d_exc_state")

\* {"success": False, "stage": "booking", "error": "Booking automation failed", ...}:
\* the record of a failed booking; the error text is the literal, modelled as "booking".
BookFailedRecord == [NoResult EXCEPT !.stage = "booking", !.error = "booking"]

\* RESULT_FILE: success False, stage "booking"; return 1
RunBookFailedResult(p) ==
  /\ proc[p].kind = "run" /\ proc[p].pc = "d_bfail_result"
  /\ RunWriteResult(p, BookFailedRecord, 1, "d_exc_state")

\* except Exception: state["status"] = "failed" ...; write_state(state).  An
\* exception raised here leaves the handler and only the finally block runs.
RunExceptState(p) ==
  /\ proc[p].kind = "run" /\ proc[p].pc = "d_exc_state"
  /\ RunWriteState(p, FailedState(proc[p].state, "exception"),
                   "d_exc_result", "d_raise")

\* except Exception: RESULT_FILE: success False, no stage; return 1
RunExceptResult(p) ==
  /\ proc[p].kind = "run" /\ proc[p].pc = "d_exc_result"
  /\ RunWriteResult(p, [NoResult EXCEPT !.error = "exception"], 1, "d_raise")

\* finally: os.remove(PID_FILE) (errors swallowed); log_file.close().  Then the
\* process exits: with the returned value, or with the exception that left the handler.
RunFinally(p) ==
  /\ proc[p].kind = "run" /\ proc[p].pc \in {"d_finally", "d_raise"}
  /\ pidFile' = NoFile
  /\ Set(p, IF proc[p].pc = "d_finally"
              THEN [proc[p] EXCEPT !.pc = "exited"]
              ELSE [proc[p] EXCEPT !.pc = "crashed"])
  /\ UNCHANGED <<poller, others, counters, stateFile, resultFile, logFile>>

--------------------------------------------------------------------------
(* bc-ferries.py: command line invocations *)

\* A new process for a command.
Spawn(kind, pc, fg) ==
  /\ cmds < MaxCmds
  /\ nextPid \in Pids
  /\ Set(nextPid, [NoProc EXCEPT !.kind = kind, !.pc = pc, !.fg = fg])
  /\ nextPid' = nextPid + 1
  /\ cmds' = cmds + 1
  /\ UNCHANGED <<poller, others, faults, files>>

\* bc-ferries monitor-and-book --daemon
InvokeStart == Spawn("start", "s_check", FALSE)

\* bc-ferries monitor-and-book: daemon_monitor_and_book runs in the command's process.
InvokeForeground == Spawn("run", "d_pid", TRUE)

\* bc-ferries stop
InvokeStop == Spawn("stop", "st_check", FALSE)

--------------------------------------------------------------------------
(* bc-ferries.py: cmd_monitor_and_book --daemon *)

\* if is_daemon_running(): ... return 1
StartCheck(p) ==
  /\ proc[p].kind = "start" /\ proc[p].pc = "s_check"
  /\ pidFile' = PidFileAfterCheck(pidFile)
  /\ Set(p, IF is_daemon_running(pidFile)
              THEN [proc[p] EXCEPT !.ret = 1, !.msg = "already_running", !.pc = "exited"]
              ELSE [proc[p] EXCEPT !.stale = (pidFile # NoFile), !.pc = "s_fork"])
  /\ UNCHANGED <<poller, others, counters, stateFile, resultFile, logFile>>

\* pid = os.fork(): the parent goes on to time.sleep(0.5) and its liveness check.
\* The child (os.setsid(); pid2 = os.fork(); sys.exit(0)) touches no file and is
\* modelled within this step: it has exited, and its own child, the daemon, is
\* about to run daemon_monitor_and_book.
StartFork(p) ==
  /\ proc[p].kind = "start" /\ proc[p].pc = "s_fork"
  /\ nextPid + 1 \in Pids
  /\ proc' = [proc EXCEPT
       ![p] = [@ EXCEPT !.pid = nextPid, !.pc = "s_confirm"],
       ![nextPid] = [NoProc EXCEPT !.kind = "child", !.pid = nextPid + 1, !.ret = 0,
                                   !.pc = "exited"],
       ![nextPid + 1] = [NoProc EXCEPT !.kind = "run", !.pc = "d_pid"]]
  /\ nextPid' = nextPid + 2
  /\ UNCHANGED <<poller, others, cmds, faults, files>>

\* After time.sleep(0.5): if is_daemon_running(): ... return 0 else: ... return 1
StartConfirm(p) ==
  /\ proc[p].kind = "start" /\ proc[p].pc = "s_confirm"
  /\ pidFile' = PidFileAfterCheck(pidFile)
  /\ Set(p, IF is_daemon_running(pidFile)
              THEN [proc[p] EXCEPT !.ret = 0, !.msg = "started", !.pc = "exited"]
              ELSE [proc[p] EXCEPT !.ret = 1, !.msg = "failed_to_start", !.pc = "exited"])
  /\ UNCHANGED <<poller, others, counters, stateFile, resultFile, logFile>>

--------------------------------------------------------------------------
(* bc-ferries.py: cmd_stop *)

\* The dispositions of SIGTERM process t can turn out to have.
Dispositions(t) ==
  IF proc[t].sigterm = "unknown" THEN {"default", "ignored"} ELSE {proc[t].sigterm}

\* os.kill(t, signal.SIGTERM) on a live process t with disposition d.
Terminated(t, d) ==
  IF d = "default" THEN [proc[t] EXCEPT !.sigterm = d, !.pc = "killed"]
                   ELSE [proc[t] EXCEPT !.sigterm = d]

\* os.kill(t, signal.SIGKILL) on a live process t.
Killed(t) == [proc[t] EXCEPT !.pc = "killed"]

\* except Exception: ... return 1
StopError(s) == [proc[s] EXCEPT !.ret = 1, !.msg = "error", !.pc = "exited"]

\* if not is_daemon_running(): ... return 1
StopCheck(s) ==
  /\ proc[s].kind = "stop" /\ proc[s].pc = "st_check"
  /\ pidFile' = PidFileAfterCheck(pidFile)
  /\ Set(s, IF is_daemon_running(pidFile)
              THEN [proc[s] EXCEPT !.pc = "st_getpid"]
              ELSE [proc[s] EXCEPT !.ret = 1, !.msg = "no_daemon", !.pc = "exited"])
  /\ UNCHANGED <<poller, others, counters, stateFile, resultFile, logFile>>

\* pid = get_daemon_pid()
StopGetPid(s) ==
  /\ proc[s].kind = "stop" /\ proc[s].pc = "st_getpid"
  /\ Set(s, [proc[s] EXCEPT !.pid = get_daemon_pid(pidFile), !.pc = "st_term"])
  /\ UNCHANGED <<poller, others, counters, files>>

\* os.kill(pid, signal.SIGTERM): TypeError for None, ProcessLookupError for a dead pid.
StopTerm(s) ==
  /\ proc[s].kind = "stop" /\ proc[s].pc = "st_term"
  /\ LET t == proc[s].pid
     IN  IF Alive(t)
           THEN \E d \in Dispositions(t) :
                  proc' = [proc EXCEPT ![s] = [@ EXCEPT !.term = TRUE, !.pc = "st_poll"],
                                       ![t] = Terminated(t, d)]
           ELSE Set(s, StopError(s))
  /\ UNCHANGED <<poller, others, counters, files>>

\* for _ in range(10): time.sleep(0.5); if not is_daemon_running(): break
StopPoll(s) ==
  /\ proc[s].kind = "stop" /\ proc[s].pc = "st_poll"
  /\ pidFile' = PidFileAfterCheck(pidFile)
  /\ Set(s, [proc[s] EXCEPT !.polls = @ + 1,
               !.pc = IF ~is_daemon_running(pidFile) \/ proc[s].polls + 1 = GracePolls
                        THEN "st_after" ELSE "st_poll"])
  /\ UNCHANGED <<poller, others, counters, stateFile, resultFile, logFile>>

\* The force kill without its `if is_daemon_running()`.
StopAfter_NoCheck(s) ==
  /\ proc[s].kind = "stop" /\ proc[s].pc = "st_after"
  /\ pidFile' = PidFileAfterCheck(pidFile)
  /\ Set(s, [proc[s] EXCEPT !.pc = "st_kill"])
  /\ UNCHANGED <<poller, others, counters, stateFile, resultFile, logFile>>

\* if is_daemon_running(): (force kill)
StopAfter(s) ==
  /\ proc[s].kind = "stop" /\ proc[s].pc = "st_after"
  /\ pidFile' = PidFileAfterCheck(pidFile)
  /\ Set(s, [proc[s] EXCEPT !.pc = IF is_daemon_running(pidFile) THEN "st_kill"
                                                                 ELSE "st_final"])
  /\ UNCHANGED <<poller, others, counters, stateFile, resultFile, logFile>>

\* os.kill(pid, signal.SIGKILL); time.sleep(0.5)
StopKill(s) ==
  /\ proc[s].kind = "stop" /\ proc[s].pc = "st_kill"
  /\ LET t == proc[s].pid
     IN  IF Alive(t)
           THEN proc' = [proc EXCEPT ![s] = [@ EXCEPT !.kill = TRUE, !.pc = "st_final"],
                                     ![t] = Killed(t)]
           ELSE Set(s, StopError(s))
  /\ UNCHANGED <<poller, others, counters, files>>

\* if not is_daemon_running(): ... else: ... return 1
StopFinal(s) ==
  /\ proc[s].kind = "stop" /\ proc[s].pc = "st_final"
  /\ pidFile' = PidFileAfterCheck(pidFile)
  /\ Set(s, IF is_daemon_running(pidFile)
              THEN [proc[s] EXCEPT !.ret = 1, !.msg = "failed_to_stop", !.pc = "exited"]
              ELSE [proc[s] EXCEPT !.pc = "st_read"])
  /\ UNCHANGED <<poller, others, counters, stateFile, resultFile, logFile>>

\* state = read_state()
StopReadState(s) ==
  /\ proc[s].kind = "stop" /\ proc[s].pc = "st_read"
  /\ Set(s, [proc[s] EXCEPT !.state = stateFile, !.pc = "st_write"])
  /\ UNCHANGED <<poller, others, counters, files>>

\* state["status"] = "stopped"; state["stopped_at"] = ...
StoppedState(state) == [state EXCEPT !.status = "stopped", !.stopped_at = TRUE]

\* write_state(state); return 0
StopWriteState(s) ==
  /\ proc[s].kind = "stop" /\ proc[s].pc = "st_write"
  /\ stateFile' = write_state(StoppedState(proc[s].state))
  /\ Set(s, [proc[s] EXCEPT !.state = StoppedState(@), !.ret = 0,
                            !.msg = "stopped", !.pc = "exited"])
  /\ UNCHANGED <<poller, others, counters, pidFile, resultFile, logFile>>

--------------------------------------------------------------------------
(* Specification *)

Next ==
  \/ InvokeStart
  \/ InvokeForeground
  \/ InvokeStop
  \/ \E p \in Pids : StartCheck(p)
  \/ \E p \in Pids : StartFork(p)
  \/ \E p \in Pids : StartConfirm(p)
  \/ \E p \in Pids : RunWritePid(p)
  \/ \E p \in Pids : RunOpenLog(p)
  \/ \E p \in Pids : RunInitialState(p)
  \/ \E p \in Pids : RunMonitoringState(p)
  \/ \E p \in Pids : RunCallMonitor(p)
  \/ \E p \in Pids : RunMonitorReturns(p)
  \/ \E p \in Pids : RunMonitorFailedState(p)
  \/ \E p \in Pids : RunMonitorFailedResult(p)
  \/ \E p \in Pids : RunBookingState(p)
  \/ \E p \in Pids : RunCallBook(p)
  \/ \E p \in Pids : RunBookReturns(p)
  \/ \E p \in Pids : RunCompletedState(p)
  \/ \E p \in Pids : RunCompletedResult(p)
  \/ \E p \in Pids : RunBookFailedState(p)
  \/ \E p \in Pids : RunBookFailedResult(p)
  \/ \E p \in Pids : RunExceptState(p)
  \/ \E p \in Pids : RunExceptResult(p)
  \/ \E p \in Pids : RunFinally(p)
  \/ \E p \in Pids : StopCheck(p)
  \/ \E p \in Pids : StopGetPid(p)
  \/ \E p \in Pids : StopTerm(p)
  \/ \E p \in Pids : StopPoll(p)
  \/ \E p \in Pids : StopAfter(p)
  \/ \E p \in Pids : StopKill(p)
  \/ \E p \in Pids : StopFinal(p)
  \/ \E p \in Pids : StopReadState(p)
  \/ \E p \in Pids : StopWriteState(p)

Spec == Init /\ [][Next]_vars

--------------------------------------------------------------------------
(* wait-for-ferry.py: wait_for_availability, with time *)

\* Largest --timeout and --poll-interval (seconds) of a call, and the largest
\* number of whole seconds one search_sailings call takes.
MaxTimeout == 6

MaxInterval == 3

MaxDelay == 1

\* What can go wrong in one check (api.search_sailings, api.find_sailing): the token
\* exchange fails, the request fails, the response has an error status, the
\* response cannot be parsed.
Failures == {"token", "network", "http", "parse"}

\* What one check ends with: a failure, or what Observations says of the sailing.
CheckOutcomes == (Observations \ {"ERROR"}) \cup Failures

\* The exception classes a failure raises, and the ones `except Exception` catches.
ExceptionClass(failure) ==
  CASE failure = "token"   -> "Exception"
    [] failure = "network" -> "ConnectionError"
    [] failure = "http"    -> "HTTPError"
    [] failure = "parse"   -> "JSONDecodeError"

\* `except requests.RequestException` in place of `except Exception`.
Caught_RequestsOnly(failure) ==
  ExceptionClass(failure) \in {"ConnectionError", "HTTPError"}

\* except Exception as e:
Caught(failure) ==
  ExceptionClass(failure) \in {"Exception", "ConnectionError", "HTTPError", "JSONDecodeError"}

\* `if elapsed >= timeout - 1`, one second early, in place of `if elapsed > timeout`.
TimedOut_Early(elapsed, late, timeout) == elapsed >= timeout - 1

\* `if elapsed > timeout`.  The clock reading is elapsed whole seconds, plus a
\* fraction of a second when late: every request and every sleep takes a positive
\* time that the whole seconds do not count.
TimedOut(elapsed, late, timeout) == elapsed > timeout \/ (elapsed = timeout /\ late)

\* time_module.sleep(1) in place of time_module.sleep(poll_interval).
Slept_OneSecond(now, poll_interval) == now + 1

\* The clock after time_module.sleep(poll_interval).
Slept(now, poll_interval) == now + poll_interval

\* A call wait_for_availability(..., poll_interval, timeout) at `start_time = ...`.
\*   now      seconds since start_time; late: and a fraction of a second more
\*   checks, elapsed, elate   the variables `checks` and `elapsed` (seconds, fraction)
\*   queries  calls of api.search_sailings;  sleeps: calls of time_module.sleep
\*   misses   checks that ended without finding the sailing available
\*   seen     how the last check ended;  slow: a check took a second or more
\*   result   the dict returned ("raised": an exception left the function)
NewPoll(timeout, poll_interval, late) ==
  [pc |-> "top", timeout |-> timeout, poll_interval |-> poll_interval,
   now |-> 0, late |-> late, checks |-> 0, elapsed |-> 0, elate |-> FALSE,
   queries |-> 0, sleeps |-> 0, misses |-> 0, seen |-> "none", slow |-> FALSE,
   result |-> [available |-> FALSE, reason |-> "none", elapsed |-> 0, checks |-> 0]]

PollInit ==
  /\ proc = [p \in Pids |-> NoProc]
  /\ nextPid = 1 /\ cmds = 0 /\ faults = 0
  /\ pidFile = NoFile /\ stateFile = NoState /\ resultFile = NoResult /\ logFile = NoFile
  /\ api = NoApi /\ norm = NoNorm /\ OthersIdle
  /\ poll \in {NewPoll(timeout, poll_interval, late) :
                 timeout \in 0 .. MaxTimeout, poll_interval \in 1 .. MaxInterval,
                 late \in BOOLEAN}

\* while True: checks += 1; elapsed = time_module.time() - start_time;
\* if elapsed > timeout: return {"available": False, "reason": "timeout", ...}
PollTop ==
  /\ poll.pc = "top"
  /\ poll' =
       IF TimedOut(poll.now, poll.late, poll.timeout)
         THEN [poll EXCEPT !.checks = @ + 1, !.elapsed = poll.now, !.elate = poll.late,
                           !.pc = "done",
                           !.result = [available |-> FALSE, reason |-> "timeout",
                                       elapsed |-> poll.now, checks |-> poll.checks + 1]]
         ELSE [poll EXCEPT !.checks = @ + 1, !.elapsed = poll.now, !.elate = poll.late,
                           !.pc = "check"]
  /\ UNCHANGED <<host, others, api, norm>>

\* try: result = api.search_sailings(...); sailing = api.find_sailing(result, time);
\* if sailing: available = api.is_sailing_available(sailing); if available: return {...}
\* except Exception as e: ...
PollCheck ==
  /\ poll.pc = "check"
  /\ \E outcome \in CheckOutcomes, d \in 0 .. MaxDelay :
       LET after == [poll EXCEPT !.queries = @ + 1, !.now = @ + d, !.late = TRUE,
                                 !.slow = @ \/ d > 0, !.seen = outcome]
       IN  poll' =
             IF outcome \in Failures
               THEN IF Caught(outcome)
                      THEN [after EXCEPT !.misses = @ + 1, !.pc = "sleep"]
                      ELSE [after EXCEPT !.misses = @ + 1, !.pc = "done",
                                         !.result.reason = "raised"]
               ELSE IF outcome # "NOT_FOUND" /\ is_sailing_available(outcome)
                      THEN [after EXCEPT !.pc = "done",
                                         !.result = [available |-> TRUE, reason |-> "none",
                                                     elapsed |-> poll.elapsed,
                                                     checks |-> poll.checks]]
                      ELSE [after EXCEPT !.misses = @ + 1, !.pc = "sleep"]
  /\ UNCHANGED <<host, others, api, norm>>

\* time_module.sleep(poll_interval)
PollSleep ==
  /\ poll.pc = "sleep"
  /\ poll' = [poll EXCEPT !.now = Slept(@, poll.poll_interval), !.late = TRUE,
                          !.sleeps = @ + 1, !.pc = "top"]
  /\ UNCHANGED <<host, others, api, norm>>

PollNext == PollTop \/ PollCheck \/ PollSleep

PollSpec == PollInit /\ [][PollNext]_vars

\* The process runs as long as it can: the loop is the only thread of the poller.
PollFairSpec == PollSpec /\ WF_vars(PollNext)

--------------------------------------------------------------------------
(* wait-for-ferry.py: BCFerriesAPI.get_access_token and BCFerriesAPI._make_request *)

\* Largest clock reading (seconds), number of calls made on the client, and
\* largest number of seconds by which a token's expires_in exceeds the margin.
MaxTime == 3

MaxCalls == 3

MaxLifetime == 2

\* timedelta(seconds=expires_in - 300)
SafetyMargin == 300

\* data.get("expires_in", 3600)
DefaultExpiresIn == 3600

\* self.access_token = None
NoToken == 0

\* A token response without "expires_in".
Absent == -1

\* requests.request raises (no response); otherwise the HTTP status of the response.
ConnectionFailed == 0

Statuses == {ConnectionFailed, 200, 401, 500}

\* The responses of the token endpoint.
ExpiresIns == {0} \cup (SafetyMargin - 1 .. SafetyMargin + MaxLifetime) \cup {Absent}

TokenResponses == [status : {200, 500}, expires_in : ExpiresIns]

\* The cache test without `not force_refresh`.
CacheValid_IgnoresForce(force_refresh, a) ==
  a.access_token # NoToken /\ a.now < a.token_expiry

\* The cache test of a client that never uses its cache.
CacheValid_Never(force_refresh, a) == FALSE

\* if not force_refresh and self.access_token and self.token_expiry:
\*     if datetime.now() < self.token_expiry: return self.access_token
CacheValid(force_refresh, a) ==
  ~force_refresh /\ a.access_token # NoToken /\ a.now < a.token_expiry

\* self.token_expiry without the safety margin.
Expiry_NoMargin(now, expires_in) == now + expires_in

\* self.token_expiry = datetime.now() + timedelta(seconds=expires_in - 300)
Expiry(now, expires_in) == now + expires_in - SafetyMargin

\* get_access_token(force_refresh) on client a, the token endpoint answering resp
\* if asked.  gets counts the calls, exchanges the requests to the token endpoint;
\* grant and lifetime are the time and the expires_in of the cached token; last
\* describes the call: cached (returned from the cache), raised, the token returned.
get_access_token(a, force_refresh, resp) ==
  LET call == [force |-> force_refresh, cached |-> FALSE, raised |-> FALSE,
               token |-> NoToken, at |-> a.now, grant |-> a.grant,
               lifetime |-> a.lifetime]
  IN  IF CacheValid(force_refresh, a)
        THEN [a EXCEPT !.gets = @ + 1,
                       !.last = [call EXCEPT !.cached = TRUE, !.token = a.access_token]]
        ELSE IF resp.status # 200
               THEN [a EXCEPT !.gets = @ + 1, !.exchanges = @ + 1,
                              !.last = [call EXCEPT !.raised = TRUE]]
               ELSE LET expires_in == IF resp.expires_in = Absent THEN DefaultExpiresIn
                                                                 ELSE resp.expires_in
                    IN  [a EXCEPT !.gets = @ + 1, !.exchanges = @ + 1,
                                  !.access_token = a.exchanges + 1,
                                  !.token_expiry = Expiry(a.now, expires_in),
                                  !.grant = a.now, !.lifetime = expires_in,
                                  !.last = [call EXCEPT !.token = a.exchanges + 1,
                                                        !.grant = a.now,
                                                        !.lifetime = expires_in]]

\* if response.status_code == 401:
Unauthorized(status) == status = 401

\* response.raise_for_status(): HTTPError for a 4xx or 5xx status.
raise_for_status(status) == status >= 400 /\ status < 600

\* One call of _make_request: requests sent, forced exchanges made, whether the
\* forced exchange succeeded, the status of the first and of the second response
\* (Absent: none), whether the call raised, whether it has ended.
NewRequest ==
  [sent |-> 0, forced |-> 0, refreshed |-> FALSE, first |-> Absent, second |-> Absent,
   raised |-> FALSE, ended |-> FALSE]

\* api = BCFerriesAPI()
NewApi ==
  [pc |-> "idle", now |-> 0, calls |-> 0, gets |-> 0, exchanges |-> 0,
   access_token |-> NoToken, token_expiry |-> 0, grant |-> 0, lifetime |-> 0,
   last |-> [force |-> FALSE, cached |-> FALSE, raised |-> FALSE, token |-> NoToken,
             at |-> 0, grant |-> 0, lifetime |-> 0],
   req |-> NewRequest]

ApiInit ==
  /\ proc = [p \in Pids |-> NoProc]
  /\ nextPid = 1 /\ cmds = 0 /\ faults = 0
  /\ pidFile = NoFile /\ stateFile = NoState /\ resultFile = NoResult /\ logFile = NoFile
  /\ poll = NoPoll /\ norm = NoNorm /\ OthersIdle
  /\ api = NewApi

\* Time passes.
ApiTick ==
  /\ api.pc # "none" /\ api.now < MaxTime
  /\ api' = [api EXCEPT !.now = @ + 1]
  /\ UNCHANGED <<host, others, poll, norm>>

\* A caller calls get_access_token(force_refresh).
ApiGetToken ==
  /\ api.pc = "idle" /\ api.calls < MaxCalls
  /\ \E force_refresh \in BOOLEAN, resp \in TokenResponses :
       api' = [get_access_token(api, force_refresh, resp) EXCEPT !.calls = @ + 1]
  /\ UNCHANGED <<host, others, poll, norm>>

\* _make_request: token = self.get_access_token()
ApiRequest ==
  /\ api.pc = "idle" /\ api.calls < MaxCalls
  /\ \E resp \in TokenResponses :
       LET a == get_access_token(api, FALSE, resp)
       IN  api' = IF a.last.raised
                    THEN [a EXCEPT !.calls = @ + 1,
                                   !.req = [NewRequest EXCEPT !.raised = TRUE,
                                                              !.ended = TRUE]]
                    ELSE [a EXCEPT !.calls = @ + 1, !.req = NewRequest, !.pc = "send"]
  /\ UNCHANGED <<host, others, poll, norm>>

\* response = requests.request(...); if response.status_code == 401: ...
\* otherwise response.raise_for_status(); return response.json()
ApiSend ==
  /\ api.pc = "send"
  /\ \E status \in Statuses :
       api' = IF status = ConnectionFailed
                THEN [api EXCEPT !.req.sent = 1, !.req.raised = TRUE, !.req.ended = TRUE,
                                 !.pc = "idle"]
                ELSE IF Unauthorized(status)
                       THEN [api EXCEPT !.req.sent = 1, !.req.first = status,
                                        !.pc = "refresh"]
                       ELSE [api EXCEPT !.req.sent = 1, !.req.first = status,
                                        !.req.raised = raise_for_status(status),
                                        !.req.ended = TRUE, !.pc = "idle"]
  /\ UNCHANGED <<host, others, poll, norm>>

\* token = self.get_access_token(force_refresh=True)
ApiRefresh ==
  /\ api.pc = "refresh"
  /\ \E resp \in TokenResponses :
       LET a == get_access_token(api, TRUE, resp)
       IN  api' = IF a.last.raised
                    THEN [a EXCEPT !.req.forced = @ + (a.exchanges - api.exchanges),
                                   !.req.raised = TRUE, !.req.ended = TRUE, !.pc = "idle"]
                    ELSE [a EXCEPT !.req.forced = @ + (a.exchanges - api.exchanges),
                                   !.req.refreshed = TRUE, !.pc = "resend"]
  /\ UNCHANGED <<host, others, poll, norm>>

\* response = requests.request(...) again; response.raise_for_status(); return ...
ApiResend ==
  /\ api.pc = "resend"
  /\ \E status \in Statuses :
       api' = IF status = ConnectionFailed
                THEN [api EXCEPT !.req.sent = 2, !.req.raised = TRUE, !.req.ended = TRUE,
                                 !.pc = "idle"]
                ELSE [api EXCEPT !.req.sent = 2, !.req.second = status,
                                 !.req.raised = raise_for_status(status),
                                 !.req.ended = TRUE, !.pc = "idle"]
  /\ UNCHANGED <<host, others, poll, norm>>

ApiNext == ApiTick \/ ApiGetToken \/ ApiRequest \/ ApiSend \/ ApiRefresh \/ ApiResend

ApiSpec == ApiInit /\ [][ApiNext]_vars

--------------------------------------------------------------------------
(* wait-for-ferry.py: BCFerriesAPI._normalize_time *)

\* Longest arbitrary time string; a string is a sequence of characters.
MaxLen == 4

\* The characters of the arbitrary strings.
Chars == {"0", "1", "2", "9", ":", " ", "a", "p", "m", "P"}

Digits == {"0", "1", "2", "3", "4", "5", "6", "7", "8", "9"}

DigitValue ==
  [c \in Digits |->
     CASE c = "0" -> 0 [] c = "1" -> 1 [] c = "2" -> 2 [] c = "3" -> 3 [] c = "4" -> 4
       [] c = "5" -> 5 [] c = "6" -> 6 [] c = "7" -> 7 [] c = "8" -> 8 [] c = "9" -> 9]

DigitChar == [n \in 0 .. 9 |-> CHOOSE c \in Digits : DigitValue[c] = n]

\* str.lower()
LowerChar(c) ==
  CASE c = "A" -> "a" [] c = "P" -> "p" [] c = "M" -> "m"
    [] c = "T" -> "t" [] c = "R" -> "r" [] c = "U" -> "u" [] c = "E" -> "e"
    [] OTHER -> c

Lower(str) == [i \in 1 .. Len(str) |-> LowerChar(str[i])]

\* str.strip()
RECURSIVE LStrip(_)
LStrip(str) == IF str # <<>> /\ Head(str) = " " THEN LStrip(Tail(str)) ELSE str

RECURSIVE RStrip(_)
RStrip(str) ==
  IF str # <<>> /\ str[Len(str)] = " " THEN RStrip(SubSeq(str, 1, Len(str) - 1)) ELSE str

Strip(str) == RStrip(LStrip(str))

\* `sub in str`
Contains(str, sub) ==
  \E i \in 1 .. Len(str) - Len(sub) + 1 : SubSeq(str, i, i + Len(sub) - 1) = sub

\* The positions of ":" in str; str.split(":") has one part more.
Colons(str) == {i \in 1 .. Len(str) : str[i] = ":"}

\* The value of a string of digits.
RECURSIVE DigitsValue(_)
DigitsValue(str) ==
  IF str = <<>> THEN 0
  ELSE 10 * DigitsValue(SubSeq(str, 1, Len(str) - 1)) + DigitValue[str[Len(str)]]

\* int(str) raises ValueError: after str.strip(), an optional "-" and then one
\* digit or more are accepted.
IntFails(str) ==
  LET t == Strip(str)
      u == IF t # <<>> /\ Head(t) = "-" THEN Tail(t) ELSE t
  IN  u = <<>> \/ \E i \in 1 .. Len(u) : u[i] \notin Digits

\* int(str)
IntValue(str) ==
  LET t == Strip(str)
  IN  IF t # <<>> /\ Head(t) = "-" THEN 0 - DigitsValue(Tail(t)) ELSE DigitsValue(t)

\* f"{n:02d}" in place of f"{n}": the number printed with two digits.
RECURSIVE Str_TwoDigits(_)
Str_TwoDigits(n) ==
  IF n < 10 THEN <<"0", DigitChar[n]>>
  ELSE IF n < 100 THEN <<DigitChar[n \div 10], DigitChar[n % 10]>>
  ELSE Str_TwoDigits(n \div 10) \o <<DigitChar[n % 10]>>

\* str(n) for n >= 0
RECURSIVE Str(_)
Str(n) == IF n < 10 THEN <<DigitChar[n]>> ELSE Str(n \div 10) \o <<DigitChar[n % 10]>>

\* The hour printed with `hour - 12` for 12 noon as well.
Hour12_NoNoon(hour) == IF hour >= 12 THEN hour - 12 ELSE hour

\* {hour-12 if hour > 12 else 12} and {hour if hour > 0 else 12}
Hour12(hour) ==
  IF hour >= 12 THEN (IF hour > 12 THEN hour - 12 ELSE 12)
                ELSE (IF hour > 0 THEN hour ELSE 12)

\* _normalize_time(time_str)
normalize_time(time_str) ==
  LET str == Strip(Lower(time_str))
  IN  IF /\ Contains(str, <<":">>)
         /\ ~Contains(str, <<"a", "m">>) /\ ~Contains(str, <<"p", "m">>)
        THEN IF Cardinality(Colons(str)) # 1
               THEN str
               ELSE LET at == CHOOSE i \in Colons(str) : TRUE
                        hour == SubSeq(str, 1, at - 1)
                        minute == SubSeq(str, at + 1, Len(str))
                    IN  IF IntFails(hour)
                          THEN str
                          ELSE Str(Hour12(IntValue(hour))) \o <<":">> \o minute
                                 \o (IF IntValue(hour) >= 12 THEN <<" ", "p", "m">>
                                                             ELSE <<" ", "a", "m">>)
        ELSE str

\* The minutes of the times of day normalized.
Minutes == {<<"0", "0">>, <<"0", "5">>, <<"2", "0">>, <<"5", "9">>}

\* The 24-hour string of hour h and minute mm, the hour with a leading zero if pad.
Time24(h, mm, pad) ==
  (IF pad /\ h < 10 THEN <<"0">> ELSE <<>>) \o Str(h) \o <<":">> \o mm

\* The 12-hour string of hour h and minute mm ("1:20 pm"), in upper case if upper.
Time12(h, mm, upper) ==
  Str(IF h = 0 THEN 12 ELSE IF h > 12 THEN h - 12 ELSE h) \o <<":">> \o mm
    \o (IF upper THEN (IF h < 12 THEN <<" ", "A", "M">> ELSE <<" ", "P", "M">>)
                 ELSE (IF h < 12 THEN <<" ", "a", "m">> ELSE <<" ", "p", "m">>))

\* The strings normalized: x, and `other`, another spelling of the time x (x itself
\* for an arbitrary string, h then being Absent).
NewNorm(x, other, h) ==
  [pc |-> "in", x |-> x, other |-> other, h |-> h,
   nx |-> <<>>, nother |-> <<>>, nnx |-> <<>>, nnother |-> <<>>]

NormInputs ==
  {NewNorm(x, x, Absent) : x \in UNION {[1 .. n -> Chars] : n \in 0 .. MaxLen}}
    \cup {NewNorm(Time24(h, mm, pad), Time12(h, mm, upper), h) :
            h \in 0 .. 23, mm \in Minutes, pad \in BOOLEAN, upper \in BOOLEAN}

NormInit ==
  /\ proc = [p \in Pids |-> NoProc]
  /\ nextPid = 1 /\ cmds = 0 /\ faults = 0
  /\ pidFile = NoFile /\ stateFile = NoState /\ resultFile = NoResult /\ logFile = NoFile
  /\ poll = NoPoll /\ api = NoApi /\ OthersIdle
  /\ norm \in NormInputs

\* target_normalized = self._normalize_time(target_time);
\* self._normalize_time(sailing_time)
NormFirst ==
  /\ norm.pc = "in"
  /\ norm' = [norm EXCEPT !.nx = normalize_time(norm.x),
                          !.nother = normalize_time(norm.other), !.pc = "once"]
  /\ UNCHANGED <<host, others, poll, api>>

\* _normalize_time applied to its own results.
NormSecond ==
  /\ norm.pc = "once"
  /\ norm' = [norm EXCEPT !.nnx = normalize_time(norm.nx),
                          !.nnother = normalize_time(norm.nother), !.pc = "twice"]
  /\ UNCHANGED <<host, others, poll, api>>

NormNext == NormFirst \/ NormSecond

NormSpec == NormInit /\ [][NormNext]_vars

--------------------------------------------------------------------------
(* wait-for-ferry.py: one check of the poll loop on one response *)

\* Most sailings in one response.
MaxSailings == 2

\* The departure times of the sailings and the --time of the call.
SailingTimes ==
  {<<"1", "3", ":", "2", "0">>, <<"1", ":", "2", "0", " ", "P", "M">>,
   <<"3", ":", "0", "0", " ", "p", "m">>}

TargetTimes ==
  {<<"1", "3", ":", "2", "0">>, <<"1", ":", "2", "0", " ", "p", "m">>, <<>>}

\* The values of "status" in a response.
StatusValues == {"AVAILABLE", "SOLD_OUT", "available", "AVAILABLE ", "LIMITED", ""}

\* A sailing of the response.
\*   timed    it has the key "departureTime";  time: its value
\*   block    "sailingPrice" is absent, is null, or is a dict
\*   priced   the dict has the key "status";  status: its value
Sailings ==
  {s \in [timed : BOOLEAN, time : SailingTimes \cup {<<>>},
          block : {"absent", "null", "dict"}, priced : BOOLEAN, status : StatusValues] :
     /\ s.timed <=> s.time # <<>>
     /\ s.priced => s.block = "dict"
     /\ ~s.priced => s.status = ""}

\* sailing.get("departureTime", "")
departure_time(sailing) == IF sailing.timed THEN sailing.time ELSE <<>>

\* find_sailing() returning the first sailing of the response, whatever its time.
find_sailing_First(sailings, target_time) == IF sailings = <<>> THEN 0 ELSE 1

\* find_sailing(): the index of the first sailing whose normalized departure time
\* equals the normalized target time, 0 for None.
find_sailing(sailings, target_time) ==
  LET target_normalized == normalize_time(target_time)
      hits == {i \in 1 .. Len(sailings) :
                 normalize_time(departure_time(sailings[i])) = target_normalized}
  IN  IF hits = {} THEN 0 ELSE CHOOSE i \in hits : \A j \in hits : i <= j

\* `if sailing:` a dict is true when it has a key.
Truthy(sailing) == sailing.timed \/ sailing.block # "absent"

\* sailing.get("sailingPrice", {}) is None: .get on it raises AttributeError.
StatusRaises(sailing) == sailing.block = "null"

\* sailing.get("sailingPrice", {}).get("status", "")
sailing_status(sailing) == IF sailing.priced THEN sailing.status ELSE ""

\* One check on the response `sailings` for the sailing at `time`.
\*   found      what find_sailing returned (an index, 0 for None)
\*   available  the check returned {"available": True, ...}
\*   raised     the check ended in `except Exception`
NewLook(sailings, time) ==
  [pc |-> "in", sailings |-> sailings, time |-> time,
   found |-> 0, available |-> FALSE, raised |-> FALSE]

LookInputs ==
  {NewLook(sailings, time) :
     sailings \in UNION {[1 .. n -> Sailings] : n \in 0 .. MaxSailings},
     time \in TargetTimes}

LookInit ==
  /\ proc = [p \in Pids |-> NoProc]
  /\ nextPid = 1 /\ cmds = 0 /\ faults = 0
  /\ pidFile = NoFile /\ stateFile = NoState /\ resultFile = NoResult /\ logFile = NoFile
  /\ poll = NoPoll /\ api = NoApi /\ norm = NoNorm
  /\ book = NoBook /\ args = NoArgs /\ io = NoIo
  /\ look \in LookInputs

\* sailing = api.find_sailing(result, time)
LookFind ==
  /\ look.pc = "in"
  /\ look' = [look EXCEPT !.found = find_sailing(look.sailings, look.time), !.pc = "found"]
  /\ UNCHANGED <<host, poller, book, args, io>>

\* if sailing: available = api.is_sailing_available(sailing); ... if available: return
LookAvailable ==
  /\ look.pc = "found"
  /\ look' =
       IF look.found = 0 \/ ~Truthy(look.sailings[look.found])
         THEN [look EXCEPT !.pc = "done"]
       ELSE IF StatusRaises(look.sailings[look.found])
         THEN [look EXCEPT !.raised = TRUE, !.pc = "done"]
       ELSE [look EXCEPT
               !.available = is_sailing_available(sailing_status(look.sailings[look.found])),
               !.pc = "done"]
  /\ UNCHANGED <<host, poller, book, args, io>>

LookNext == LookFind \/ LookAvailable

LookSpec == LookInit /\ [][LookNext]_vars

--------------------------------------------------------------------------
(* bc-ferries-book.py: main *)

\* steps = [("login", ...), ..., ("submit", ...)]
steps ==
  <<"login", "navigate", "terminals", "date", "passengers", "vehicle", "sailing",
    "fare", "checkout", "payment", "submit">>

\* The environment of bc-ferries-book: complete, or without one of DEPARTURE,
\* ARRIVAL, DATE, SAILING_TIME, or without BC_FERRIES_EMAIL / BC_FERRIES_PASSWORD.
Configs == {"complete", "no_parameters", "no_credentials"}

\* What a step of BCFerriesBooking returns: "success", "message" and, from
\* find_and_select_sailing only, "race_condition" (true when the sailing is found
\* sold out on the page, false when its button is not found).
\*   clicked  the step clicked "Pay now"
\*   raised   the step returned nothing: the page.screenshot of its `except` clause
\*            raised in its turn and the exception left the step
StepResults(step_name) ==
  {[success |-> TRUE, message |-> "done", race_condition |-> "absent",
    clicked |-> FALSE, raised |-> FALSE]}
    \cup {[success |-> FALSE, message |-> m, race_condition |-> "absent",
            clicked |-> FALSE, raised |-> FALSE] : m \in {"not verified", "error"}}
    \cup {[success |-> FALSE, message |-> "error", race_condition |-> "absent",
            clicked |-> FALSE, raised |-> TRUE]}
    \cup (IF step_name = "sailing"
            THEN {[success |-> FALSE, message |-> "sold out (race condition)",
                   race_condition |-> "true", clicked |-> FALSE, raised |-> FALSE],
                  [success |-> FALSE, message |-> "button not found",
                   race_condition |-> "false", clicked |-> FALSE, raised |-> FALSE]}
            ELSE {})

\* What one call of a step ends with.
StepEnd(success, message, clicked, raised) ==
  [success |-> success, message |-> message, race_condition |-> "absent",
   clicked |-> clicked, raised |-> raised]

\* BCFerriesBooking.submit_payment(dry_run): the screenshot before the payment may
\* raise; with dry_run the step then returns success; else it clicks "Pay now",
\* and reads the page (either may raise) for "decline"/"error", "confirmation"/
\* "thank you", or neither.
submit_payment(dry_run) ==
  {StepEnd(FALSE, "error", FALSE, FALSE), StepEnd(FALSE, "error", FALSE, TRUE)}
    \cup (IF dry_run
            THEN {StepEnd(TRUE, "Dry run completed", FALSE, FALSE)}
            ELSE {StepEnd(TRUE, "Booking confirmed!", TRUE, FALSE),
                  StepEnd(FALSE, "Payment declined", TRUE, FALSE),
                  StepEnd(FALSE, "Unknown payment result", TRUE, FALSE),
                  StepEnd(FALSE, "error", TRUE, FALSE),
                  StepEnd(FALSE, "error", TRUE, TRUE)})

\* step_func(): what the step named step_name ends with.
StepOutcomes(step_name, dry_run) ==
  IF step_name = "submit" THEN submit_payment(dry_run) ELSE StepResults(step_name)

\* A variable of the process environment: not set, or set to a text.
Unset == [set |-> FALSE, value |-> <<>>]

Text(value) == [set |-> TRUE, value |-> value]

\* os.environ.get(name, default)
environ_get(variable, default) == IF variable.set THEN variable.value ELSE default

\* DRY_RUN in the environment of bc-ferries-book.
DryRunValues ==
  {Unset, Text(<<"t", "r", "u", "e">>), Text(<<"T", "R", "U", "E">>),
   Text(<<"T", "r", "u", "e">>), Text(<<"f", "a", "l", "s", "e">>), Text(<<"1">>),
   Text(<<>>)}

\* `== 'true'` without the .lower().
dry_run_of_NoLower(DRY_RUN) ==
  environ_get(DRY_RUN, <<"t", "r", "u", "e">>) = <<"t", "r", "u", "e">>

\* dry_run = os.environ.get('DRY_RUN', 'true').lower() == 'true'
dry_run_of(DRY_RUN) ==
  Lower(environ_get(DRY_RUN, <<"t", "r", "u", "e">>)) = <<"t", "r", "u", "e">>

\* result = {"success": True}
SuccessResult ==
  [success |-> TRUE, failedStep |-> "none", error |-> "none", raceCondition |-> FALSE,
   confirmationNumber |-> "none"]

\* return {"success": False, "error": ...} of the validation
InvalidResult(error) == [SuccessResult EXCEPT !.success = FALSE, !.error = error]

\* result = {"success": False, "failedStep": step_name, "error": step_result["message"],
\*           "raceCondition": step_result.get("race_condition", False)}
FailedResult(step_name, step_result) ==
  [SuccessResult EXCEPT !.success = FALSE, !.failedStep = step_name,
                        !.error = step_result.message,
                        !.raceCondition = (step_result.race_condition = "true")]

\* The loop without its `break`.
Continues_Always(step_result) == TRUE

\* `if not step_result["success"]: ... break`: the loop goes on to the next step.
Continues(step_result) == step_result.success

\* One run of bc-ferries-book.
\*   ran     the steps run so far, each with the "success" it returned
\*   result  `result`;  status: the exit status (None while it runs)
\*   DRY_RUN the variable of the environment;  dry_run: `dry_run`, once assigned
\*   paid    clicks on "Pay now"
NewBook(config, DRY_RUN) ==
  [pc |-> "validate", config |-> config, DRY_RUN |-> DRY_RUN, dry_run |-> TRUE,
   ran |-> <<>>, result |-> SuccessResult, status |-> None, paid |-> 0]

BookInit ==
  /\ proc = [p \in Pids |-> NoProc]
  /\ nextPid = 1 /\ cmds = 0 /\ faults = 0
  /\ pidFile = NoFile /\ stateFile = NoState /\ resultFile = NoResult /\ logFile = NoFile
  /\ poll = NoPoll /\ api = NoApi /\ norm = NoNorm
  /\ look = NoLook /\ args = NoArgs /\ io = NoIo
  /\ book \in {NewBook(config, DRY_RUN) : config \in Configs, DRY_RUN \in DryRunValues}

\* if not all([departure, arrival, date, sailing_time]): return {...}
\* if not email or not password: return {...}
\* dry_run = os.environ.get('DRY_RUN', 'true').lower() == 'true'
BookValidate ==
  /\ book.pc = "validate"
  /\ book' =
       CASE book.config = "no_parameters" ->
              [book EXCEPT !.result = InvalidResult("Missing required parameters"),
                           !.pc = "exit"]
         [] book.config = "no_credentials" ->
              [book EXCEPT !.result = InvalidResult("Missing credentials"), !.pc = "exit"]
         [] OTHER -> [book EXCEPT !.dry_run = dry_run_of(book.DRY_RUN), !.pc = "launch"]
  /\ UNCHANGED <<host, poller, look, args, io>>

\* with sync_playwright() as p: browser = p.chromium.launch(...); an exception
\* here is not caught: the interpreter prints it and exits with status 1.
BookLaunch ==
  /\ book.pc = "launch"
  /\ \E ok \in BOOLEAN :
       book' = IF ok THEN [book EXCEPT !.pc = "steps"]
                     ELSE [book EXCEPT !.status = 1, !.pc = "done"]
  /\ UNCHANGED <<host, poller, look, args, io>>

\* for step_name, step_func in steps: step_result = step_func(); ...
\* An exception that leaves step_func() is not caught: the interpreter prints it
\* and exits with status 1.
BookStep ==
  /\ book.pc = "steps"
  /\ LET step_name == steps[Len(book.ran) + 1]
     IN  \E step_result \in StepOutcomes(step_name, book.dry_run) :
           LET ran == Append(book.ran, [name |-> step_name, success |-> step_result.success])
               paid == book.paid + IF step_result.clicked THEN 1 ELSE 0
           IN  book' =
                 IF step_result.raised
                   THEN [book EXCEPT !.paid = paid, !.status = 1, !.pc = "done"]
                 ELSE IF ~Continues(step_result)
                   THEN [book EXCEPT !.ran = ran, !.paid = paid, !.pc = "finish",
                                     !.result = FailedResult(step_name, step_result)]
                   ELSE [book EXCEPT !.ran = ran, !.paid = paid,
                           !.pc = IF Len(ran) = Len(steps) THEN "finish" ELSE "steps"]
  /\ UNCHANGED <<host, poller, look, args, io>>

\* if result["success"]: result["confirmationNumber"] = ...; browser.close(); return result
BookFinish ==
  /\ book.pc = "finish"
  /\ book' =
       IF book.result.success
         THEN [book EXCEPT !.pc = "exit",
                 !.result.confirmationNumber =
                    IF book.dry_run THEN "DRY_RUN" ELSE "LIVE_BOOKING"]
         ELSE [book EXCEPT !.pc = "exit"]
  /\ UNCHANGED <<host, poller, look, args, io>>

\* print(json.dumps(result)); sys.exit(0 if result["success"] else 1)
BookExit ==
  /\ book.pc = "exit"
  /\ book' = [book EXCEPT !.status = book_main(book.result.success), !.pc = "done"]
  /\ UNCHANGED <<host, poller, look, args, io>>

BookNext == BookValidate \/ BookLaunch \/ BookStep \/ BookFinish \/ BookExit

BookSpec == BookInit /\ [][BookNext]_vars

--------------------------------------------------------------------------
(* End to end: one `bc-ferries monitor-and-book` in the foreground, the poller it
   runs against a scripted source, the booking action it runs against scripted
   pages.  No file operation raises and no other command runs. *)

\* --poll-interval and --timeout of the scenario, in seconds.
ScenarioInterval == 10

ScenarioTimeout == 60

\* What the source answers to the successive search_sailings calls; the last
\* answer is repeated.
Scripts ==
  {<<"SOLD_OUT", "SOLD_OUT", "SOLD_OUT", "AVAILABLE">>, <<"AVAILABLE">>, <<"SOLD_OUT">>,
   <<"network", "NOT_FOUND", "AVAILABLE">>}

SourceAt(script, i) == IF i <= Len(script) THEN script[i] ELSE script[Len(script)]

\* --adults, --children, --seniors of the command line.
Passengers ==
  {[adults |-> 1, children |-> 0, seniors |-> 0],
   [adults |-> 2, children |-> 1, seniors |-> 0],
   [adults |-> 0, children |-> 0, seniors |-> 0],
   [adults |-> 0, children |-> 0, seniors |-> 2],
   [adults |-> -1, children |-> 1, seniors |-> 0]}

\* DRY_RUN in the environment the scenario runs in.
ScenarioDryRuns == {Unset, Text(<<"f", "a", "l", "s", "e">>)}

\* The command line `bc-ferries monitor-and-book ...` and what the run will meet.
\*   accepted   argparse accepts it (required options present, counts are integers)
\*   source     the script of the source;  config, dry_run: the environment of
\*              bc-ferries-book once the workflow has filled in its own arguments
NewArgs(accepted, passengers, source, config, dry_run) ==
  [pc |-> "cmdline", accepted |-> accepted, adults |-> passengers.adults,
   children |-> passengers.children, seniors |-> passengers.seniors,
   poll_interval |-> ScenarioInterval, timeout |-> ScenarioTimeout,
   source |-> source, config |-> config, dry_run |-> dry_run]

ScenarioInputs ==
  {NewArgs(accepted, passengers, source, config, dry_run) :
     accepted \in BOOLEAN, passengers \in Passengers, source \in Scripts,
     config \in Configs, dry_run \in ScenarioDryRuns}

ScenarioInit ==
  /\ proc = [p \in Pids |-> NoProc]
  /\ nextPid = 1 /\ cmds = 0 /\ faults = MaxFaults
  /\ pidFile = NoFile /\ stateFile = NoState /\ resultFile = NoResult /\ logFile = NoFile
  /\ poll = NoPoll /\ api = NoApi /\ norm = NoNorm
  /\ look = NoLook /\ book = NoBook /\ io = NoIo
  /\ args \in ScenarioInputs

\* args = parser.parse_args(): argparse exits with status 2 on a malformed command line.
ScenarioParse ==
  /\ args.pc = "cmdline"
  /\ args' = [args EXCEPT !.pc = IF args.accepted THEN "parsed" ELSE "rejected"]
  /\ UNCHANGED <<host, poller, look, book, io>>

\* return cmd_monitor_and_book(args), without --daemon.
ScenarioInvoke == args.pc = "parsed" /\ cmds = 0 /\ InvokeForeground

\* `if args.adults: monitor_cmd.extend(["--adults", str(args.adults)])`: what
\* wait-for-ferry gets for an option of value `value` whose default there is `default`.
monitor_arg(value, default) == IF value # 0 THEN value ELSE default

\* wait-for-ferry main(): `if args.adults + args.children + args.seniors == 0`
\* evaluated to false, on the command line the workflow built.
PollerArgsValid(a) ==
  monitor_arg(a.adults, 1) + monitor_arg(a.children, 0) + monitor_arg(a.seniors, 0) # 0

\* args = parser.parse_args() of wait-for-ferry on the command line the workflow
\* built: an option the workflow left out has the default of wait-for-ferry.
poller_args(a) ==
  [adults |-> monitor_arg(a.adults, 1), children |-> monitor_arg(a.children, 0),
   seniors |-> monitor_arg(a.seniors, 0),
   poll_interval |-> monitor_arg(a.poll_interval, 60),
   timeout |-> monitor_arg(a.timeout, 3600)]

\* wait-for-ferry main(): the exit status.
poller_status(p) ==
  IF p.pc = "invalid" THEN 2
  ELSE IF p.result.reason = "raised" THEN 2
  ELSE IF p.result.available THEN 0 ELSE 1

\* result = subprocess.call(monitor_cmd): wait-for-ferry starts; it returns 2 at
\* once for invalid arguments, else it calls wait_for_availability with the
\* passenger counts, the interval and the timeout it parsed.
ScenarioCallMonitor(p) ==
  /\ proc[p].kind = "run" /\ proc[p].pc = "d_mon_call"
  /\ Set(p, [proc[p] EXCEPT !.pc = "d_mon_wait"])
  /\ poll' = IF PollerArgsValid(args)
               THEN LET query == poller_args(args)
                    IN  NewPoll(query.timeout, query.poll_interval, FALSE)
                          @@ [adults |-> query.adults, children |-> query.children,
                              seniors |-> query.seniors]
               ELSE [pc |-> "invalid"]
  /\ UNCHANGED <<counters, files, api, norm, look, book, args, io>>

\* One check of the poller, answered by the source as its script says.
ScenarioCheck == PollCheck /\ poll'.seen = SourceAt(args.source, poll.queries + 1)

\* subprocess.call(monitor_cmd) returns the exit status; `if result != 0`.
ScenarioMonitorReturns(p) ==
  /\ proc[p].kind = "run" /\ proc[p].pc = "d_mon_wait"
  /\ poll.pc \in {"done", "invalid"}
  /\ LET result == poller_status(poll)
     IN  Set(p, [proc[p] EXCEPT !.result = result,
                   !.seen = IF poll.pc = "done" THEN poll.seen ELSE "none",
                   !.pc = IF MonitorFailed(result) THEN "d_mfail_state"
                                                   ELSE "d_book_state"])
  /\ UNCHANGED <<counters, files, poller, others>>

\* os.environ[...] = ...; subprocess.call(["bc-ferries-book"]): the action starts.
ScenarioCallBook(p) ==
  /\ proc[p].kind = "run" /\ proc[p].pc = "d_book_call"
  /\ Set(p, [proc[p] EXCEPT !.books = @ + 1, !.pc = "d_book_wait"])
  /\ book' = NewBook(args.config, args.dry_run)
  /\ UNCHANGED <<counters, files, poller, look, args, io>>

\* book_result = subprocess.call(["bc-ferries-book"]); `if book_result == 0`
ScenarioBookReturns(p) ==
  /\ proc[p].kind = "run" /\ proc[p].pc = "d_book_wait"
  /\ book.pc = "done"
  /\ Set(p, [proc[p] EXCEPT !.book = book.status,
               !.pc = IF BookSucceeded(book.status) THEN "d_done_state"
                                                    ELSE "d_bfail_state"])
  /\ UNCHANGED <<counters, files, poller, others>>

\* The steps of the workflow, of its poller and of its booking action.
ScenarioRun ==
  \/ \E p \in Pids : RunWritePid(p)
  \/ \E p \in Pids : RunOpenLog(p)
  \/ \E p \in Pids : RunInitialState(p)
  \/ \E p \in Pids : RunMonitoringState(p)
  \/ \E p \in Pids : ScenarioCallMonitor(p)
  \/ PollTop
  \/ ScenarioCheck
  \/ PollSleep
  \/ \E p \in Pids : ScenarioMonitorReturns(p)
  \/ \E p \in Pids : RunMonitorFailedState(p)
  \/ \E p \in Pids : RunMonitorFailedResult(p)
  \/ \E p \in Pids : RunBookingState(p)
  \/ \E p \in Pids : ScenarioCallBook(p)
  \/ BookValidate
  \/ BookLaunch
  \/ BookStep
  \/ BookFinish
  \/ BookExit
  \/ \E p \in Pids : ScenarioBookReturns(p)
  \/ \E p \in Pids : RunCompletedState(p)
  \/ \E p \in Pids : RunCompletedResult(p)
  \/ \E p \in Pids : RunBookFailedState(p)
  \/ \E p \in Pids : RunBookFailedResult(p)
  \/ \E p \in Pids : RunFinally(p)

ScenarioNext == ScenarioParse \/ ScenarioInvoke \/ ScenarioRun

ScenarioSpec == ScenarioInit /\ [][ScenarioNext]_vars

\* Every process runs as long as it can.
ScenarioFairSpec == ScenarioSpec /\ WF_vars(ScenarioNext)

--------------------------------------------------------------------------
(* End to end with a stop: the scenario, and one `bc-ferries stop` at any moment
   after the workflow was invoked.  SIGTERM and SIGKILL go to the workflow's
   process only (os.kill(pid, ...)): the poller and the booking action are its
   children and run on. *)

CancelInit ==
  /\ ScenarioInit
  /\ args.accepted
  /\ args.adults = 1 /\ args.children = 0 /\ args.seniors = 0

\* bc-ferries stop, typed after the monitor-and-book.
CancelInvokeStop == cmds = 1 /\ InvokeStop

CancelStop ==
  \/ \E p \in Pids : StopCheck(p)
  \/ \E p \in Pids : StopGetPid(p)
  \/ \E p \in Pids : StopTerm(p)
  \/ \E p \in Pids : StopPoll(p)
  \/ \E p \in Pids : StopAfter(p)
  \/ \E p \in Pids : StopKill(p)
  \/ \E p \in Pids : StopFinal(p)
  \/ \E p \in Pids : StopReadState(p)
  \/ \E p \in Pids : StopWriteState(p)

CancelNext == ScenarioNext \/ CancelInvokeStop \/ CancelStop

CancelSpec == CancelInit /\ [][CancelNext]_vars

--------------------------------------------------------------------------
(* bc-ferries.py: STATE_FILE and RESULT_FILE byte-wise.  A run rewrites the file
   with open(path, 'w') and json.dump; status and stop read it.  The records are
   far smaller than the buffer of the file object, so the text reaches the file
   in one piece when the `with` block closes it. *)

\* Most writes of the file by the run, most reads by the commands.
MaxWrites == 3

MaxReads == 2

\* A file of zero bytes: open(path, 'w') has truncated it.  json.load raises on it.
Truncated == -2

\* The file a run rewrites.  The records it holds are numbered: 0 is the complete
\* record an earlier run left, k the k-th record this run writes.
\*   writer   idle | open (inside `with open(...)`) | exited | killed
\*   got      what the last read returned: a record, Truncated for {} from the
\*            `except` of read_state, None before any read
\*   raised   the last read ended the command with an uncaught JSONDecodeError
NewIo(file) ==
  [pc |-> "run", file |-> file, content |-> 0, writer |-> "idle", writes |-> 0,
   reader |-> "none", reads |-> 0, got |-> None, raised |-> FALSE]

IoInit ==
  /\ proc = [p \in Pids |-> NoProc]
  /\ nextPid = 1 /\ cmds = 0 /\ faults = 0
  /\ pidFile = NoFile /\ stateFile = NoState /\ resultFile = NoResult /\ logFile = NoFile
  /\ poll = NoPoll /\ api = NoApi /\ norm = NoNorm
  /\ look = NoLook /\ book = NoBook /\ args = NoArgs
  /\ io \in {NewIo(file) : file \in {"STATE_FILE", "RESULT_FILE"}}

\* with open(STATE_FILE, 'w') as f:   the file is truncated when it is opened
IoOpen ==
  /\ io.pc = "run" /\ io.writer = "idle" /\ io.writes < MaxWrites
  /\ io' = [io EXCEPT !.content = Truncated, !.writer = "open"]
  /\ UNCHANGED <<host, poller, look, book, args>>

\* json.dump(state, f, indent=2) and the end of the `with` block: the text is
\* flushed and the file closed.
IoDump ==
  /\ io.pc = "run" /\ io.writer = "open"
  /\ io' = [io EXCEPT !.content = io.writes + 1, !.writes = @ + 1, !.writer = "idle"]
  /\ UNCHANGED <<host, poller, look, book, args>>

\* The run returns.
IoExit ==
  /\ io.pc = "run" /\ io.writer = "idle"
  /\ io' = [io EXCEPT !.writer = "exited"]
  /\ UNCHANGED <<host, poller, look, book, args>>

\* os.kill(pid, signal.SIGTERM) of cmd_stop ends the run where it is; text still
\* in the buffer of an open file is lost.
IoKill ==
  /\ io.pc = "run" /\ io.writer \in {"idle", "open"}
  /\ io' = [io EXCEPT !.writer = "killed"]
  /\ UNCHANGED <<host, poller, look, book, args>>

\* read_state(): json.load(f), and {} when it raises.
read_state(content) == content

\* cmd_status while the daemon runs: state = read_state()
IoStatus ==
  /\ io.pc = "run" /\ io.file = "STATE_FILE" /\ io.reads < MaxReads
  /\ io.writer \in {"idle", "open"}
  /\ io' = [io EXCEPT !.reader = "status", !.reads = @ + 1,
                      !.got = read_state(io.content), !.raised = FALSE]
  /\ UNCHANGED <<host, poller, look, book, args>>

\* cmd_stop once the daemon is gone: state = read_state()
IoStop ==
  /\ io.pc = "run" /\ io.file = "STATE_FILE" /\ io.reads < MaxReads
  /\ io.writer = "killed"
  /\ io' = [io EXCEPT !.reader = "stop", !.reads = @ + 1,
                      !.got = read_state(io.content), !.raised = FALSE]
  /\ UNCHANGED <<host, poller, look, book, args>>

\* cmd_status with no daemon running: result = json.load(f) on RESULT_FILE, not
\* inside a try.
IoLastResult ==
  /\ io.pc = "run" /\ io.file = "RESULT_FILE" /\ io.reads < MaxReads
  /\ io.writer \in {"exited", "killed"}
  /\ io' = [io EXCEPT !.reader = "status", !.reads = @ + 1, !.got = io.content,
                      !.raised = (io.content = Truncated)]
  /\ UNCHANGED <<host, poller, look, book, args>>

IoNext == IoOpen \/ IoDump \/ IoExit \/ IoKill \/ IoStatus \/ IoStop \/ IoLastResult

IoSpec == IoInit /\ [][IoNext]_vars

--------------------------------------------------------------------------
(* bc-ferries.py: cmd_status, on a host where an earlier run may have left its
   records: monitor-and-book in the foreground, stop, and one status at any
   moment.  No file operation raises. *)

\* The records an earlier run (pid OldPid) left when it completed: RESULT_FILE and
\* STATE_FILE are never removed, PID_FILE was removed by its finally block.
OldState == write_state([InitialState(OldPid) EXCEPT !.status = "completed"])

OldResult ==
  [NoResult EXCEPT !.exists = TRUE, !.success = TRUE, !.stage = "booking", !.by = OldPid]

StatusInit ==
  /\ proc = [p \in Pids |-> NoProc]
  /\ nextPid = 1 /\ cmds = 0 /\ faults = MaxFaults
  /\ pidFile = NoFile /\ logFile = NoFile
  /\ \/ stateFile = NoState /\ resultFile = NoResult
     \/ stateFile = OldState /\ resultFile = OldResult
  /\ poll = NoPoll /\ api = NoApi /\ norm = NoNorm
  /\ OthersIdle

\* bc-ferries status, once.
InvokeStatus ==
  /\ nextPid \in Pids
  /\ \A q \in Pids : proc[q].kind # "status"
  /\ Set(nextPid, [NoProc EXCEPT !.kind = "status", !.pc = "su_check"])
  /\ nextPid' = nextPid + 1
  /\ UNCHANGED <<poller, others, cmds, faults, files>>

\* if not is_daemon_running(): print("No daemon running") ...
StatusCheck(s) ==
  /\ proc[s].kind = "status" /\ proc[s].pc = "su_check"
  /\ pidFile' = PidFileAfterCheck(pidFile)
  /\ Set(s, [proc[s] EXCEPT !.pc = IF is_daemon_running(pidFile) THEN "su_state"
                                                                 ELSE "su_result"])
  /\ UNCHANGED <<poller, others, counters, stateFile, resultFile, logFile>>

\* if os.path.exists(RESULT_FILE): print("Last run result:"); result = json.load(f);
\* print(json.dumps(result)).  return 1
StatusLastResult(s) ==
  /\ proc[s].kind = "status" /\ proc[s].pc = "su_result"
  /\ Set(s, [proc[s] EXCEPT !.ret = 1, !.pc = "exited",
               !.msg = IF resultFile.exists THEN "last_run_result" ELSE "no_daemon"])
  /\ UNCHANGED <<poller, others, counters, files>>

\* pid = get_daemon_pid(); state = read_state(); print(...); return 0
StatusState(s) ==
  /\ proc[s].kind = "status" /\ proc[s].pc = "su_state"
  /\ Set(s, [proc[s] EXCEPT !.pid = get_daemon_pid(pidFile), !.state = stateFile,
                            !.ret = 0, !.msg = "running", !.pc = "exited"])
  /\ UNCHANGED <<poller, others, counters, files>>

\* The workflow, with no exception.
StatusRun ==
  \/ \E p \in Pids : RunWritePid(p)
  \/ \E p \in Pids : RunOpenLog(p)
  \/ \E p \in Pids : RunInitialState(p)
  \/ \E p \in Pids : RunMonitoringState(p)
  \/ \E p \in Pids : RunCallMonitor(p)
  \/ \E p \in Pids : RunMonitorReturns(p)
  \/ \E p \in Pids : RunMonitorFailedState(p)
  \/ \E p \in Pids : RunMonitorFailedResult(p)
  \/ \E p \in Pids : RunBookingState(p)
  \/ \E p \in Pids : RunCallBook(p)
  \/ \E p \in Pids : RunBookReturns(p)
  \/ \E p \in Pids : RunCompletedState(p)
  \/ \E p \in Pids : RunCompletedResult(p)
  \/ \E p \in Pids : RunBookFailedState(p)
  \/ \E p \in Pids : RunBookFailedResult(p)
  \/ \E p \in Pids : RunFinally(p)

StatusNext ==
  \/ InvokeForeground
  \/ InvokeStop
  \/ InvokeStatus
  \/ StatusRun
  \/ CancelStop
  \/ \E s \in Pids : StatusCheck(s)
  \/ \E s \in Pids : StatusLastResult(s)
  \/ \E s \in Pids : StatusState(s)

StatusSpec == StatusInit /\ [][StatusNext]_vars

--------------------------------------------------------------------------
(* bc-ferries.py and bc-ferries-book.py: the parameters of the booking action.
   The workflow, once the poller has reported the sailing available, exports its
   arguments to the process environment; bc-ferries-book reads them from there.
   A date is written <<form, day>>: the day it names and the form of the text
   (MDY for MM/DD/YYYY, YMD for YYYY-MM-DD). *)

\* What a variable of the environment holds before the run.
EnvValues == {Unset, Text(<<>>), Text(<<"9">>)}

\* The same for DATE.
EnvDates == {Unset, Text(<<>>), Text(<<"YMD", "d9">>)}

EnvNames == {"DEPARTURE", "ARRIVAL", "SAILING_TIME", "ADULTS", "CHILDREN", "SENIORS"}

\* The environments a run can be started in.
Environs ==
  {[name \in EnvNames \cup {"DATE"} |-> IF name = "DATE" THEN date ELSE e[name]] :
     e \in [EnvNames -> EnvValues], date \in EnvDates}

\* --date as typed: in the form MM/DD/YYYY, or in another form.
ArgDates == {<<"MDY", "d1">>, <<"DMY", "d1">>}

\* The passenger counts the poller accepts.
EnvPassengers ==
  {p \in Passengers : PollerArgsValid(p) /\ p.adults >= 0 /\ p.children >= 0 /\ p.seniors >= 0}

\* What bc-ferries-book has not read yet.
NotRead ==
  [departure |-> <<>>, arrival |-> <<>>, date |-> <<>>, sailing_time |-> <<>>,
   adults |-> None, children |-> None, seniors |-> None]

\* The workflow at "Step 2: Starting booking automation": its arguments and the
\* environment it inherited.
NewEnv(passengers, date, environ) ==
  [pc |-> "export", departure |-> <<"a">>, arrival |-> <<"b">>, date |-> date,
   time |-> <<"1">>, adults |-> passengers.adults, children |-> passengers.children,
   seniors |-> passengers.seniors, environ |-> environ, booked |-> NotRead]

EnvInit ==
  /\ proc = [p \in Pids |-> NoProc]
  /\ nextPid = 1 /\ cmds = 0 /\ faults = 0
  /\ pidFile = NoFile /\ stateFile = NoState /\ resultFile = NoResult /\ logFile = NoFile
  /\ poll = NoPoll /\ api = NoApi /\ norm = NoNorm
  /\ look = NoLook /\ book = NoBook /\ io = NoIo
  /\ args \in {NewEnv(passengers, date, environ) :
                 passengers \in EnvPassengers, date \in ArgDates, environ \in Environs}

\* `not os.environ.get(name)`: the variable is not set or is empty.
Missing(variable) == ~variable.set \/ variable.value = <<>>

\* if not os.environ.get(name): os.environ[name] = value
SetDefault(variable, value) == IF Missing(variable) THEN Text(value) ELSE variable

\* datetime.strptime(args.date, "%m/%d/%Y").strftime("%Y-%m-%d"), and args.date
\* itself when strptime raises.
BookingDate(date) == IF date[1] = "MDY" THEN <<"YMD", date[2]>> ELSE date

\* `x or 1`
OrOne(x) == IF x # 0 THEN x ELSE 1

\* Lines 198-217: the arguments are exported, each where the environment has no
\* value yet; CHILDREN and SENIORS only when the argument is not 0.
EnvExport ==
  /\ args.pc = "export"
  /\ LET e == args.environ
     IN  args' = [args EXCEPT !.pc = "exported",
           !.environ =
              [e EXCEPT
                 !.DEPARTURE = SetDefault(e.DEPARTURE, args.departure),
                 !.ARRIVAL = SetDefault(e.ARRIVAL, args.arrival),
                 !.DATE = SetDefault(e.DATE, BookingDate(args.date)),
                 !.SAILING_TIME = SetDefault(e.SAILING_TIME, args.time),
                 !.ADULTS = SetDefault(e.ADULTS, Str(OrOne(args.adults))),
                 !.CHILDREN = IF args.children # 0
                                THEN SetDefault(e.CHILDREN, Str(args.children))
                                ELSE e.CHILDREN,
                 !.SENIORS = IF args.seniors # 0
                               THEN SetDefault(e.SENIORS, Str(args.seniors))
                               ELSE e.SENIORS]]
  /\ UNCHANGED <<host, poller, look, book, io>>

\* bc-ferries-book main(): departure = os.environ.get('DEPARTURE') ...
\* adults = int(os.environ.get('ADULTS', '1')) ...; a ValueError of int() is not
\* caught and ends the action.
EnvRead ==
  /\ args.pc = "exported"
  /\ LET e == args.environ
         adults == environ_get(e.ADULTS, <<"1">>)
         children == environ_get(e.CHILDREN, <<"0">>)
         seniors == environ_get(e.SENIORS, <<"0">>)
     IN  args' =
           IF IntFails(adults) \/ IntFails(children) \/ IntFails(seniors)
             THEN [args EXCEPT !.pc = "raised"]
             ELSE [args EXCEPT !.pc = "read",
                     !.booked =
                        [departure |-> environ_get(e.DEPARTURE, <<>>),
                         arrival |-> environ_get(e.ARRIVAL, <<>>),
                         date |-> environ_get(e.DATE, <<>>),
                         sailing_time |-> environ_get(e.SAILING_TIME, <<>>),
                         adults |-> IntValue(adults),
                         children |-> IntValue(children),
                         seniors |-> IntValue(seniors)]]
  /\ UNCHANGED <<host, poller, look, book, io>>

EnvNext == EnvExport \/ EnvRead

EnvSpec == EnvInit /\ [][EnvNext]_vars

--------------------------------------------------------------------------
(* Claims *)

\* The workflows started by monitor-and-book --daemon that are alive.
LiveDaemons == {p \in Pids : Workflow(p) /\ ~proc[p].fg}

\* C1: at every moment at most one workflow process started by
\* `monitor-and-book --daemon` is alive, whatever the interleaving of the starts.
C1_AtMostOneDaemon == Cardinality(LiveDaemons) <= 1

\* C2: once STATE_FILE holds status completed or failed for a run, a stop command
\* that signalled that run does not replace the status (by stopped).
C2_StopKeepsTerminalStatus ==
  [][\A s \in Pids :
       (/\ proc[s].kind = "stop"
        /\ stateFile.exists
        /\ stateFile.pid = proc[s].pid
        /\ stateFile.status \in {"completed", "failed"})
       => stateFile'.status = stateFile.status]_vars

\* The changes of the status a run writes that keep the written sequence a prefix
\* of monitoring, booking, completed | monitoring, booking, failed | monitoring, failed.
StatusSteps ==
  {<<"none", "monitoring">>, <<"monitoring", "booking">>, <<"monitoring", "failed">>,
   <<"booking", "completed">>, <<"booking", "failed">>}

\* C3: every write_state of a workflow repeats the status the run wrote last or
\* moves it along monitoring -> booking -> completed | failed, monitoring -> failed.
C3_StatusSequence ==
  [][\A p \in Pids :
       \/ proc'[p].written = proc[p].written
       \/ <<proc[p].written, proc'[p].written>> \in StatusSteps]_vars

\* The workflow runs, and those that have ended (returned, crashed or were killed).
Runs == {p \in Pids : proc[p].kind = "run"}

Ended == {p \in Runs : proc[p].pc \in {"exited", "killed", "crashed"}}

\* C4 as stated: a run that has ended started the booking action exactly once if
\* its poller reported availability (exit status 0) and zero times otherwise.
C4_BookedExactlyOnceIfAvailable ==
  \A p \in Ended : proc[p].books = IF proc[p].result = 0 THEN 1 ELSE 0

\* C4 as amended: a run starts the booking action at most once and only after its
\* poller reported availability; a run that returned after the poller reported
\* availability started it exactly once unless an exception was raised in the run.
C4_BookedAtMostOnceAfterAvailable ==
  \A p \in Runs :
    /\ proc[p].books <= 1
    /\ proc[p].books = 1 => proc[p].result = 0
    /\ (proc[p].pc = "exited" /\ proc[p].result = 0 /\ ~proc[p].err)
         => proc[p].books = 1

\* A run returned after availability and one booking, with no exception.
C4_Witness ==
  \E p \in Runs :
    proc[p].pc = "exited" /\ proc[p].result = 0 /\ ~proc[p].err /\ proc[p].books = 1

\* C5: a run writes status booking (and starts the booking) only after its poller
\* exited with 0, which the poller does only when its last check saw the sailing
\* AVAILABLE; after any other exit status the run never writes booking or completed,
\* never starts the booking, and returns with status failed.
C5_BookingOnlyWhenAvailable ==
  \A p \in Runs :
    /\ (proc[p].written \in {"booking", "completed"} \/ proc[p].books > 0)
         => (proc[p].result = 0 /\ proc[p].seen = "AVAILABLE")
    /\ proc[p].result \in {1, 2}
         => /\ proc[p].written \in {"monitoring", "failed"}
            /\ proc[p].books = 0
            /\ proc[p].pc = "exited" => proc[p].written = "failed"

\* One run has written booking after availability, another has returned with
\* status failed after a poller timeout.
C5_Witness ==
  /\ \E p \in Runs : proc[p].written = "booking" /\ proc[p].result = 0
  /\ \E p \in Runs :
       proc[p].pc = "exited" /\ proc[p].result = 1 /\ proc[p].written = "failed"

C7_ErrorEndsFailed ==
  \A p \in Runs :
    (proc[p].err /\ proc[p].pc \in {"exited", "crashed"})
      => /\ proc[p].results = 1
         /\ proc[p].written = "failed"
         /\ pidFile # p

\* C8: the step of a --daemon start whose liveness check finds the PID record
\* naming a live process returns 1 and changes no file, creates no process and
\* changes no other process.
C8_StartRefusedWhenRunning ==
  [][\A p \in Pids :
       (/\ proc[p].kind = "start" /\ proc[p].pc = "s_check"
        /\ is_daemon_running(pidFile)
        /\ proc'[p] # proc[p])
       => /\ proc'[p].ret = 1
          /\ proc'[p].msg = "already_running"
          /\ proc'[p].pc = "exited"
          /\ UNCHANGED files
          /\ nextPid' = nextPid
          /\ \A q \in Pids \ {p} : proc'[q] = proc[q]]_vars

\* A start was refused while the workflow named by the PID record is alive.
C8_Witness ==
  \E p \in Pids :
    /\ proc[p].kind = "start" /\ proc[p].msg = "already_running"
    /\ is_daemon_running(pidFile)
    /\ stateFile.exists

\* C9: a --daemon start whose liveness check found a stale or unparsable PID
\* record returns 0.
C9_StaleStartSucceeds ==
  \A p \in Pids :
    (proc[p].kind = "start" /\ proc[p].stale /\ proc[p].pc = "exited")
      => proc[p].ret = 0

\* The stop commands.
Stops == {s \in Pids : proc[s].kind = "stop"}

\* The step of stop command s in which its SIGKILL is delivered.
ForceKills(s) == proc'[s].kill /\ ~proc[s].kill

C11_StopSucceedsWhenDead ==
  \A s \in Stops :
    (proc[s].pc = "exited" /\ proc[s].msg # "no_daemon" /\ ~Alive(proc[s].pid))
      => proc[s].ret = 0

\* C12: whenever PID_FILE names a live workflow, STATE_FILE exists, its pid field
\* is the recorded pid and its status is monitoring or later.
C12_LiveRunHasState ==
  Workflow(pidFile)
    => /\ stateFile.exists
       /\ stateFile.pid = pidFile
       /\ stateFile.status \in {"monitoring", "booking", "completed", "failed"}

\* The call of wait_for_availability has returned.
PollDone == poll.pc = "done"

\* C13: wait_for_availability terminates, and when no check found the sailing
\* available it returns available = False with reason timeout and an elapsed
\* value of at least the timeout.
C13_TimeoutTerminates ==
  /\ <>PollDone
  /\ [](PollDone /\ poll.seen # "AVAILABLE"
          => /\ ~poll.result.available
             /\ poll.result.reason = "timeout"
             /\ poll.result.elapsed >= poll.timeout)

\* A call with poll_interval < timeout timed out after several checks, the last
\* of which failed.
C13_Witness ==
  /\ PollDone /\ poll.result.reason = "timeout"
  /\ poll.poll_interval < poll.timeout
  /\ poll.misses >= 2 /\ poll.seen \in Failures

\* The smallest integer that is at least a / b.
CeilDiv(a, b) == (a + b - 1) \div b

\* C14: when every check took a negligible time and poll_interval < timeout, the
\* checks value returned on timeout differs from ceil(timeout / poll_interval)
\* by at most 1.
C14_ChecksOnTimeout ==
  (/\ PollDone /\ poll.result.reason = "timeout"
   /\ ~poll.slow
   /\ poll.poll_interval < poll.timeout)
    => poll.result.checks - CeilDiv(poll.timeout, poll.poll_interval) \in -1 .. 1

\* A call timed out with a timeout that is a multiple of its poll interval.
C14_Witness ==
  /\ PollDone /\ poll.result.reason = "timeout" /\ ~poll.slow
  /\ poll.poll_interval < poll.timeout
  /\ poll.poll_interval > 1
  /\ poll.timeout % poll.poll_interval = 0

\* C15: a check that finds the sailing AVAILABLE returns at once with
\* available = True and checks = k, k - 1 being the checks that did not find it
\* available; the call has then made k queries and slept k - 1 intervals.
C15_AvailableOnCheckK ==
  /\ [](PollDone /\ poll.result.available
          => /\ poll.seen = "AVAILABLE"
             /\ poll.result.checks = poll.misses + 1
             /\ poll.queries = poll.result.checks
             /\ poll.sleeps = poll.result.checks - 1)
  /\ [][(poll.pc = "check" /\ poll'.seen = "AVAILABLE")
          => /\ poll'.pc = "done"
             /\ poll'.result.available
             /\ poll'.result.checks = poll.misses + 1]_vars

\* The sailing was found available on check 6, after 5 checks that did not.
C15_Witness ==
  /\ PollDone /\ poll.result.available
  /\ poll.result.checks = 6 /\ poll.misses = 5

RequestEnded == api.pc = "idle" /\ api.req.ended /\ api.req.sent >= 1

\* C17 as stated: a request whose first response is 401 makes exactly one forced
\* token exchange and is sent exactly twice, a second 401 being raised as an
\* error; a request with any other first response makes no forced exchange and
\* is sent once.
C17_OneRefreshOneResend ==
  RequestEnded
    => /\ Unauthorized(api.req.first)
            => /\ api.req.forced = 1 /\ api.req.sent = 2
               /\ Unauthorized(api.req.second) => api.req.raised
       /\ ~Unauthorized(api.req.first)
            => api.req.forced = 0 /\ api.req.sent = 1

\* C17 as amended: after a first 401 exactly one forced exchange is made, and the
\* request is sent a second and last time exactly when that exchange succeeded
\* (its failure is raised without a resend); a second 401 is raised; any other
\* first response leads to no forced exchange and no resend.
C17_OneRefreshResendIfRefreshed ==
  RequestEnded
    => /\ Unauthorized(api.req.first)
            => /\ api.req.forced = 1
               /\ api.req.sent = IF api.req.refreshed THEN 2 ELSE 1
               /\ ~api.req.refreshed => api.req.raised
               /\ Unauthorized(api.req.second) => api.req.raised
       /\ ~Unauthorized(api.req.first)
            => /\ api.req.forced = 0 /\ api.req.sent = 1
               /\ ~api.req.refreshed

\* A request was answered 401 twice, while the cached token had not expired: one
\* forced exchange, one resend, an error.
C17_Witness ==
  /\ RequestEnded
  /\ Unauthorized(api.req.first) /\ Unauthorized(api.req.second)
  /\ api.req.forced = 1 /\ api.req.sent = 2 /\ api.req.raised
  /\ api.last.force /\ api.last.at < api.last.grant + api.last.lifetime - SafetyMargin

\* The cached token was obtained and the time is before its grant time +
\* expires_in - 300 s.
TokenFresh == api.access_token # NoToken /\ api.now < api.grant + api.lifetime - SafetyMargin

\* C18: a call of get_access_token without force_refresh made while the time is
\* before the expiry of the last token obtained issues no token exchange and
\* returns the cached token.
C18_NoExchangeWhileFresh ==
  [][(api'.gets = api.gets + 1 /\ ~api'.last.force /\ TokenFresh)
       => /\ api'.exchanges = api.exchanges
          /\ api'.last.cached /\ ~api'.last.raised
          /\ api'.last.token = api.access_token
          /\ api'.access_token = api.access_token
          /\ api'.token_expiry = api.token_expiry]_vars

\* The second unforced call on a client found the token fresh and was answered
\* from the cache: one exchange in all.
C18_Witness ==
  /\ api.gets >= 2 /\ api.exchanges = 1
  /\ api.last.cached /\ ~api.last.force /\ api.last.token = api.access_token

C20_NormalizeIdempotentSymmetric ==
  /\ norm.pc = "twice" => (norm.nnx = norm.nx /\ norm.nnother = norm.nother)
  /\ (norm.pc \in {"once", "twice"} /\ norm.h # Absent) => norm.nx = norm.nother

\* "13:20" and "1:20 PM" were normalized, to the same string, which a second
\* normalization left alone.
C20_Witness ==
  /\ norm.pc = "twice" /\ norm.h = 13
  /\ norm.x = <<"1", "3", ":", "2", "0">>
  /\ norm.other = <<"1", ":", "2", "0", " ", "P", "M">>
  /\ norm.nx = <<"1", ":", "2", "0", " ", "p", "m">>
  /\ norm.nnx = norm.nx /\ norm.nother = norm.nx

\* The minute of the time of day norm.x, as it was written.
NormMinute == SubSeq(norm.x, Len(norm.x) - 1, Len(norm.x))

\* The hour e in 1..12 as the 12-hour clock writes it, without a leading zero.
HourText(e) == IF e < 10 THEN <<DigitChar[e]>> ELSE <<"1", DigitChar[e - 10]>>

\* C21: the 24-hour string "H:MM" of hour H in 0..23, with or without a leading
\* zero, normalizes to "12:MM am" for H = 0, "12:MM pm" for H = 12,
\* "(H-12):MM pm" for H > 12 and "H:MM am" for 0 < H < 12, the hour written
\* without a leading zero.
C21_TwentyFourHourRule ==
  (norm.pc \in {"once", "twice"} /\ norm.h # Absent) =>
    norm.nx =
      CASE norm.h = 0  -> <<"1", "2", ":">> \o NormMinute \o <<" ", "a", "m">>
        [] norm.h = 12 -> <<"1", "2", ":">> \o NormMinute \o <<" ", "p", "m">>
        [] norm.h > 12 -> HourText(norm.h - 12) \o <<":">> \o NormMinute \o <<" ", "p", "m">>
        [] OTHER       -> HourText(norm.h) \o <<":">> \o NormMinute \o <<" ", "a", "m">>

\* "00:05" was normalized to "12:05 am".
C21_Witness ==
  /\ norm.pc = "once" /\ norm.h = 0
  /\ norm.x = <<"0", "0", ":", "0", "5">>
  /\ norm.nx = <<"1", "2", ":", "0", "5", " ", "a", "m">>

\* The sailings of the response whose normalized departure time is the normalized
\* target time, and the first of them.
Matching ==
  {i \in 1 .. Len(look.sailings) :
     normalize_time(IF look.sailings[i].timed THEN look.sailings[i].time ELSE <<>>)
       = normalize_time(look.time)}

FirstMatching == CHOOSE i \in Matching : \A j \in Matching : i <= j

\* C22: a check reports the sailing available exactly when the response has a
\* sailing at the normalized target time and the status field of the (first) such
\* sailing is "AVAILABLE" exactly; any other status, a missing status, a missing
\* price block and a response without a matching sailing give not-available.
C22_AvailableIffStatusAvailable ==
  look.pc = "done" =>
    /\ look.available <=>
         /\ Matching # {}
         /\ look.sailings[FirstMatching].block = "dict"
         /\ look.sailings[FirstMatching].priced
         /\ look.sailings[FirstMatching].status = "AVAILABLE"
    /\ Matching = {} => ~look.available

\* The response had an AVAILABLE sailing at another time and the 13:20 sailing
\* with status "available": the check did not report availability.
C22_Witness ==
  /\ look.pc = "done" /\ ~look.available /\ look.found = 2
  /\ look.time = <<"1", "3", ":", "2", "0">>
  /\ Len(look.sailings) = 2
  /\ look.sailings[1].time = <<"3", ":", "0", "0", " ", "p", "m">>
  /\ look.sailings[1].status = "AVAILABLE"
  /\ look.sailings[2].time = <<"1", ":", "2", "0", " ", "P", "M">>
  /\ look.sailings[2].status = "available"

\* The steps of the booking action that reported failure, by position.
FailedSteps == {i \in 1 .. Len(book.ran) : ~book.ran[i].success}

\* C25: the booking action runs its steps in the order login, navigate, terminals,
\* date, passengers, vehicle, sailing, fare, checkout, payment, submit; a step is
\* run only after every earlier step reported success, no step is run after one
\* that reported failure, and the result names that step as the failed step.
C25_StepsInOrderStopAtFailure ==
  book.pc # "none" =>
    /\ Len(book.ran) <= 11
    /\ \A i \in 1 .. Len(book.ran) :
         book.ran[i].name =
           <<"login", "navigate", "terminals", "date", "passengers", "vehicle",
             "sailing", "fare", "checkout", "payment", "submit">>[i]
    /\ \A i \in 1 .. Len(book.ran) - 1 : book.ran[i].success
    /\ (FailedSteps # {} /\ book.pc \in {"finish", "exit", "done"})
         => /\ ~book.result.success
            /\ book.result.failedStep = book.ran[Len(book.ran)].name
    /\ (book.pc = "done" /\ book.status = 0) =>
         (Len(book.ran) = 11 /\ FailedSteps = {})

\* The action ended after vehicle reported failure: six steps were run and the
\* result names vehicle.
C25_Witness ==
  /\ book.pc = "done" /\ book.status = 1
  /\ Len(book.ran) = 6 /\ ~book.ran[6].success
  /\ book.result.failedStep = "vehicle"

\* The scenario: an accepted command line with passengers, a source that reports
\* SOLD_OUT on the first three checks and AVAILABLE on the fourth.
SoldOutThrice ==
  /\ args.pc = "parsed"
  /\ args.adults + args.children + args.seniors > 0
  /\ args.source = <<"SOLD_OUT", "SOLD_OUT", "SOLD_OUT", "AVAILABLE">>

\* The booking action has ended and each of its eleven steps reported success.
AllStepsSucceeded ==
  /\ book.pc = "done"
  /\ Len(book.ran) = 11
  /\ \A i \in 1 .. Len(book.ran) : book.ran[i].success

\* C23, at every moment of the scenario: the poller returns from its fourth check,
\* after three sleeps of the interval; the run then enters booking; and once the
\* run has returned with every booking step successful, the status is completed
\* and the ResultRecord has success true and stage "booking".
ScenarioBooked ==
  SoldOutThrice =>
    \A p \in Runs :
      /\ proc[p].result # None =>
           /\ proc[p].result = 0
           /\ poll.result.available /\ poll.result.checks = 4
           /\ poll.queries = 4 /\ poll.sleeps = 3 /\ poll.misses = 3
           /\ poll.result.elapsed >= 3 * 10
      /\ proc[p].books > 0 => proc[p].written # "monitoring"
      /\ proc[p].pc = "exited" => proc[p].books = 1
      /\ (proc[p].pc = "exited" /\ AllStepsSucceeded) =>
           /\ stateFile.status = "completed" /\ stateFile.pid = p
           /\ resultFile.exists /\ resultFile.by = p
           /\ resultFile.success /\ resultFile.stage = "booking"

\* C23: end to end with interval 10 and timeout 60, when the source reports
\* SOLD_OUT on the first 3 checks and AVAILABLE on check 4 the workflow enters
\* booking after check 4, and it does return; when every booking step succeeded
\* it returns with status completed and a ResultRecord with success true and
\* stage "booking".
C23_EndToEndBooked ==
  /\ []ScenarioBooked
  /\ SoldOutThrice ~> (\E p \in Runs : proc[p].pc = "exited" /\ proc[p].books = 1)

\* The scenario has run to its end with eleven successful steps.
C23_Witness ==
  /\ SoldOutThrice /\ AllStepsSucceeded
  /\ poll.result.checks = 4 /\ poll.sleeps = 3
  /\ \E p \in Runs : proc[p].pc = "exited" /\ proc[p].written = "completed"
  /\ resultFile.success /\ resultFile.stage = "booking"

\* The content of RESULT_FILE, without the mark of who wrote it.
ResultContent == [resultFile EXCEPT !.exists = FALSE, !.by = None]

\* C24: when the booking action failed at the step sailing (find_and_select_sailing)
\* with the race-condition flag set, the ResultRecord the run wrote has success
\* false and stage "booking" and differs from the record the workflow writes when
\* the step fails without the flag.
C24_RaceConditionDistinguishable ==
  \A p \in Runs :
    (/\ proc[p].results = 1 /\ resultFile.by = p
     /\ book.pc = "done" /\ book.result.failedStep = "sailing"
     /\ book.result.raceCondition)
    => /\ ~resultFile.success
       /\ resultFile.stage = "booking"
       /\ ResultContent # BookFailedRecord

\* C27: when a step of the booking action failed, the WorkflowState and the
\* ResultRecord the run wrote hold, in their text fields, the name of the step
\* that failed and the message of that step.
C27_FailedStepRecorded ==
  \A p \in Runs :
    (/\ proc[p].results = 1 /\ resultFile.by = p /\ stateFile.pid = p
     /\ book.pc = "done" /\ book.result.failedStep # "none")
    => /\ book.result.failedStep \in {resultFile.stage, resultFile.error}
       /\ book.result.error \in {resultFile.stage, resultFile.error}
       /\ book.result.failedStep \in {stateFile.status, stateFile.error}
       /\ book.result.error \in {stateFile.status, stateFile.error}

C28_InvalidConfigLeavesNoState ==
  (args.pc # "none" /\ args.adults + args.children + args.seniors = 0)
    => (pidFile = NoFile /\ stateFile = NoState /\ resultFile = NoResult)

\* A search_sailings call of the poller is in flight.
CallInFlight == poll.pc = "check"

\* C29: a stop that arrives while a check's network call is in flight does not end
\* the run during the call: no run is ended while a call is in flight, and when
\* STATE_FILE comes to say stopped no call is in flight any more.
C29_StopWaitsForCheck ==
  [][/\ \A p \in Pids :
          (Workflow(p) /\ CallInFlight) => proc'[p].pc # "killed"
     /\ (stateFile.status # "stopped" /\ stateFile'.status = "stopped")
          => poll'.pc # "check"]_vars

\* C30: a process that reads the WorkflowState record or the ResultRecord never
\* gets empty or partial content: every read returns the complete previous record
\* or the complete new one, and no read fails.
C30_ReadsSeeWholeRecords ==
  io.pc = "run" =>
    /\ io.got # Truncated
    /\ io.got # None => io.got \in {io.writes, io.writes + 1, io.writes - 1}
    /\ ~io.raised

\* C31: every ResultRecord the workflow writes carries a stage, "monitoring" or
\* "booking", on every terminating path, the exception path included.
C31_ResultHasStage ==
  resultFile.exists => resultFile.stage \in {"monitoring", "booking"}

\* Every request of the call took MaxDelay seconds: the clock stands at the sleeps
\* plus MaxDelay for each request.
EveryRequestSlow ==
  poll.now = poll.sleeps * poll.poll_interval + poll.queries * MaxDelay

\* C32: the elapsed value wait_for_availability returns is the wall-clock time from
\* the start of the call to its return, the duration of every request included:
\* with requests of d > 0 seconds each, the elapsed reported with available = true
\* after k checks is at least (k-1)*interval + k*d; and a timeout is decided on the
\* wall-clock elapsed time only.
C32_ElapsedIsWallClock ==
  poll.pc = "done" =>
    /\ (poll.result.available /\ EveryRequestSlow) =>
         poll.result.elapsed >=
           (poll.result.checks - 1) * poll.poll_interval + poll.result.checks * MaxDelay
    /\ poll.result.reason = "timeout" =>
         (poll.result.elapsed = poll.now /\ TimedOut(poll.now, poll.late, poll.timeout))

\* DRY_RUN is not set, or is "true" in some letter case.
DryRunAsked ==
  \/ ~book.DRY_RUN.set
  \/ Lower(book.DRY_RUN.value) = <<"t", "r", "u", "e">>

\* The step submit has returned.
SubmitReturned == Len(book.ran) = 11

\* C33 as stated: with DRY_RUN unset or "true" in any letter case the booking
\* action never clicks "Pay now", and the step submit returns success.
C33_DryRunSubmitSucceeds ==
  (book.pc # "none" /\ DryRunAsked) =>
    /\ book.paid = 0
    /\ SubmitReturned => book.ran[11].success

\* C33, amended: with DRY_RUN unset or "true" in any letter case the booking
\* action never clicks "Pay now", whatever the steps do; the step submit returns
\* success with nothing submitted unless a screenshot raises, in which case it
\* returns the failure "error" or the exception ends the action with status 1;
\* and an action that exits with status 0 reports the confirmation DRY_RUN.
C33_DryRunNeverPays ==
  (book.pc # "none" /\ DryRunAsked) =>
    /\ book.paid = 0
    /\ (SubmitReturned /\ ~book.ran[11].success) =>
         (book.result.failedStep = "submit" /\ book.result.error = "error")
    /\ (book.pc = "done" /\ book.status = 0) =>
         (SubmitReturned /\ book.result.confirmationNumber = "DRY_RUN")

\* DRY_RUN=TRUE: the eleven steps succeeded and nothing was paid.
C33_Witness ==
  /\ book.pc = "done" /\ book.status = 0
  /\ book.DRY_RUN = Text(<<"T", "R", "U", "E">>)
  /\ SubmitReturned /\ book.ran[11].success
  /\ book.paid = 0

\* A stop has reported success.
StopSucceeded == \E s \in Pids : proc[s].kind = "stop" /\ proc[s].msg = "stopped"

\* C34: after stop has reported success for a run, no process of that run is
\* still executing: the poller and the booking action the run started take no
\* further step, and in particular nothing is paid once the status is stopped.
C34_NothingRunsAfterStop ==
  [][(StopSucceeded /\ stateFile.status = "stopped") => (poll' = poll /\ book' = book)]_vars

\* C35: the PID record is never overwritten or removed by a workflow process while
\* the process it names is a different live workflow: a step that leaves the
\* named live workflow where it is, and is taken by another workflow, leaves the
\* record as it is.
C35_PidRecordKeptForLiveWorkflow ==
  [][\A p, q \in Pids :
       (/\ pidFile = p /\ Workflow(p) /\ proc'[p] = proc[p]
        /\ q # p /\ proc[q].kind = "run" /\ proc'[q] # proc[q])
       => pidFile' = p]_vars

\* The commands `monitor-and-book --daemon` that have forked.
Starts == {p \in Pids : proc[p].kind = "start" /\ proc[p].pid # None}

\* The process that runs the workflow of the --daemon invocation p: the child of
\* the child that p forked.
DaemonOf(p) == proc[proc[p].pid].pid

\* C36: when `monitor-and-book --daemon` has reported "Failed to start daemon", no
\* workflow process of that invocation is running, then or later.
C36_FailedStartLeavesNoWorkflow ==
  \A p \in Starts : proc[p].msg = "failed_to_start" => ~Workflow(DaemonOf(p))

\* C37: when `monitor-and-book --daemon` reports success, the PID it reports is
\* the PID of the process that runs the workflow, the one that process stores in
\* the PID record and in the WorkflowState record.
C37_ReportedPidIsWorkflowPid ==
  \A p \in Starts :
    proc[p].msg = "started" =>
      /\ proc[p].pid = DaemonOf(p)
      /\ proc[proc[p].pid].kind = "run"

\* The runs that have recorded themselves in the WorkflowState record.
Recorded == {p \in Runs : proc[p].written # "none"}

\* The most recent run on the host: the recorded workflow process started last,
\* or the earlier run when none was recorded since.
LastRun ==
  IF Recorded = {} THEN OldPid ELSE CHOOSE p \in Recorded : \A q \in Recorded : q <= p

\* C38: whenever status finds no live daemon and prints a "last run result", the
\* ResultRecord it prints was written by the most recent run, and it does not
\* contradict the status in the WorkflowState record: success goes with the
\* status completed, and with no other.
C38_LastResultIsOfLastRun ==
  [][\A s \in Pids :
       (proc[s].pc = "su_result" /\ proc'[s].msg = "last_run_result")
       => /\ resultFile.by = LastRun
          /\ resultFile.success <=> stateFile.status = "completed"]_vars

\* The request the poller was run with: the arguments, a count of 0 replaced by
\* the default of wait-for-ferry.
Polled ==
  [departure |-> args.departure, arrival |-> args.arrival, day |-> args.date[2],
   sailing_time |-> args.time, adults |-> monitor_arg(args.adults, 1),
   children |-> monitor_arg(args.children, 0), seniors |-> monitor_arg(args.seniors, 0)]

\* C39: the route, date, sailing time and passenger counts the booking action
\* works with are those of the request that was monitored, whatever the process
\* environment held before the run.
C39_BookingTargetsPolledRequest ==
  args.pc = "read" =>
         /\ args.booked.departure = Polled.departure
         /\ args.booked.arrival = Polled.arrival
         /\ Len(args.booked.date) = 2 /\ args.booked.date[2] = Polled.day
         /\ args.booked.sailing_time = Polled.sailing_time
         /\ args.booked.adults = Polled.adults
         /\ args.booked.children = Polled.children
         /\ args.booked.seniors = Polled.seniors

\* C40: the passenger counts, the poll interval and the timeout the poller queries
\* with are the values given to monitor-and-book, 0 included: a value given is
\* never replaced by the poller's own default.
C40_PollerUsesGivenValues ==
  (args.pc = "parsed" /\ poll.pc \in {"top", "check", "sleep", "done"}) =>
    /\ poll.adults = args.adults
    /\ poll.children = args.children
    /\ poll.seniors = args.seniors
    /\ poll.poll_interval = args.poll_interval
    /\ poll.timeout = args.timeout

====
